---- MODULE Spec2Model ----
(***************************************************************************)
(* Scene graph of the Cyber UI toolkit: the Object2D hierarchy, the        *)
(* Frame3D containers and the OpenGL renderer backend.                     *)
(***************************************************************************)
EXTENDS Integers, Sequences, FiniteSets, TLC

(* ------------------------------------------------------------------ *)
(* Bounds of the model                                                 *)
(* ------------------------------------------------------------------ *)
NumNodes == 3
NumFrames == 2
MaxFrameChildren == 2
NumImages == 2
MaxFrameCount == 6
MaxSceneFrames == 3
MaxClipDepth == 2

\* nullptr
Null == 0
\* identities of the Object2D instances the host holds
Nodes == 1..NumNodes
\* identities of the Frame3D instances the host holds
Frames == 1..NumFrames

\* identities of the Image instances the host holds
Images == 1..NumImages

\* the Camera the SceneRoot constructor makes, and the cameras the host holds
DefaultCamera == 1
Cameras == {DefaultCamera, DefaultCamera + 1}

\* framebuffer size of the window (glfwGetFramebufferSize), width, height
WindowSize == <<8, 6>>

VARIABLES
    \* --- the hierarchy
    parent_,        \* Object2D::parent_ of every node (Null or a node)
    children_,      \* Object2D::children_ of every node (a sequence)
    f3dChildren_,   \* Frame3D::children_ of every frame (a sequence)
    pc,             \* position inside Object2D::addChild: "idle" or "attach"
    last,           \* the call in progress or, when pc = "idle", the last call made
    \* --- attributes of the nodes, frames, images and of the scene root
    kind,           \* dynamic type of every node: "Frame2D", "Rectangle", "Text"
    visible_,       \* Object2D::visible_
    position_,      \* Object2D::position_, <<x, y>>
    size_,          \* Frame2D / Rectangle width_, height_, <<w, h>>
    clipping_enabled_,  \* Frame2D::clipping_enabled_
    image_,         \* Shape2D::image_ (Null or an image)
    f3dVisible_,    \* Frame3D::visible_
    f3dSize_,       \* Frame3D::renderTargetWidth_, renderTargetHeight_
    renderTargetTexture_,   \* Frame3D::renderTargetTexture_ (0 for nullptr)
    frames_,        \* SceneRoot::frames_
    camera_,        \* SceneRoot::camera_ (Null or a camera)
    \* --- OpenGLRenderer
    initialized_,
    window_,        \* Null, or the window created by glfwCreateWindow
    shaderProgram_,
    vao_,
    vbo_,
    whiteTexture_,
    textureCache_,          \* map Image -> texture
    textTextureCache_,      \* map string -> texture
    renderTargetCache_,     \* map Frame3D -> texture
    newTexturesCreatedThisFrame_,
    scissorStack_,          \* sequence of <<x, y, width, height>>
    currentRenderTargetWidth_,
    currentRenderTargetHeight_,
    \* --- the OpenGL context and the traversal in progress
    glTextures,     \* texture names alive in the current context
    glScissorBox,   \* the active scissor region, <<x, y, width, height>>
    glTexImage,     \* per render-target texture, the <<width, height>> glTexImage2D gave it
    agenda,         \* what is left to do of the renderScene call in progress
    \* --- history
    ev,             \* what the last renderer step did
    firstTexture,   \* per image, the texture its first fetch since initialize gave
    createdSinceBegin,  \* "none" before the first successful beginFrame, else
                        \* whether a GPU texture was created since the last one
    steps,          \* the steps of the renderScene call in progress or last made
    \* --- MetalRenderer, frame counting
    metalInitialized_,  \* MetalRenderer::initialized_
    frameCount_,        \* frames since the last FPS update
    totalFrameCount_,   \* total frames rendered
    endFrameCalls,      \* history: endFrame calls completed since the last initialize
    metalLast,          \* history: the last MetalRenderer call made
    \* --- Image, for every image
    width_,
    height_,
    channels_,
    format_,        \* "JPEG", "PNG" or "Unknown"
    data_,          \* the pixel buffer, a sequence of bytes
    filepath_,      \* a sequence of characters
    imgCall,        \* history: the last Image call made
    \* --- Camera (the one camera of the scene)
    cameraPosition_,    \* Camera::position_, <<x, y, z>>
    cameraRotation_,    \* Camera::rotation_, <<pitch, yaw, roll>> in quarter turns
    camCall,            \* history: the last Camera call made
    \* --- object lifetime
    alive,              \* per node, whether the object has not been destroyed
    \* --- a second OpenGLRenderer instance, with a context of its own
    other,              \* its initialized_, renderTargetCache_ and texture names
    \* --- close requests
    shouldClose_,       \* OpenGLRenderer::shouldClose_
    windowShouldClose,  \* the close flag of the GLFW window (glfwWindowShouldClose)
    closeRequested      \* history: a close request was polled since the last
                        \* successful initialize

hierVars == <<parent_, children_, f3dChildren_, pc, last>>
attrVars == <<kind, visible_, position_, size_, clipping_enabled_, image_,
              f3dVisible_, f3dSize_, frames_, camera_>>
handleVars == <<initialized_, window_, shaderProgram_, vao_, vbo_, whiteTexture_>>
cacheVars == <<textureCache_, textTextureCache_, renderTargetCache_>>
frameVars == <<newTexturesCreatedThisFrame_, scissorStack_,
               currentRenderTargetWidth_, currentRenderTargetHeight_>>
rendererVars == <<handleVars, cacheVars, frameVars>>
glVars == <<glTextures, glScissorBox>>
histVars == <<firstTexture, createdSinceBegin, steps>>
renderVars == <<renderTargetTexture_, rendererVars, glVars, agenda, ev, histVars>>
imageVars == <<width_, height_, channels_, format_, data_, filepath_, imgCall>>
metalVars == <<metalInitialized_, frameCount_, totalFrameCount_, endFrameCalls, metalLast>>
cameraVars == <<cameraPosition_, cameraRotation_, camCall>>
closeVars == <<shouldClose_, windowShouldClose, closeRequested>>
restVars == <<cameraVars, glTexImage, alive, other, closeVars>>
vars == <<hierVars, attrVars, metalVars, imageVars, restVars, renderVars>>

(* ------------------------------------------------------------------ *)
(* std::vector helpers                                                 *)
(* ------------------------------------------------------------------ *)
\* std::find(begin, end, x): index of the first element equal to x, 0 for end()
Find(s, x) ==
    IF \E i \in 1..Len(s) : s[i] = x
    THEN CHOOSE i \in 1..Len(s) : s[i] = x /\ \A j \in 1..(i - 1) : s[j] # x
    ELSE 0

\* vector::erase(it)
EraseAt(s, i) == SubSeq(s, 1, i - 1) \o SubSeq(s, i + 1, Len(s))

\* number of occurrences of x in s
Count(s, x) == Cardinality({i \in 1..Len(s) : s[i] = x})

(* ------------------------------------------------------------------ *)
(* Object2D::removeChild, as a function of (parent_, children_)        *)
(* ------------------------------------------------------------------ *)
\* a removeChild that erases nothing
ChildrenAfterRemoveNoErase(chi, a, b) == chi

\* children_ after a->removeChild(b): the first occurrence is erased
ChildrenAfterRemove(chi, a, b) ==
    LET it == Find(chi[a], b)
    IN  IF it # 0 THEN [chi EXCEPT ![a] = EraseAt(@, it)] ELSE chi

\* a removeChild that leaves the back-reference
ParentAfterRemoveKeep(par, chi, a, b) == par

\* parent_ after a->removeChild(b): the found child's back-reference is cleared
ParentAfterRemove(par, chi, a, b) ==
    LET it == Find(chi[a], b)
    IN  IF it # 0 THEN [par EXCEPT ![chi[a][it]] = Null] ELSE par

\* a call record: the operation, its receiver and argument, what the argument was
\* to the receiver before the call, and the argument's parent_ before the call
Call(op, a, b, pre) ==
    [op |-> op, self |-> a, child |-> b, pre |-> pre,
     preParent |-> IF b = Null THEN Null ELSE parent_[b]]

NoCall == [op |-> "none", self |-> Null, child |-> Null, pre |-> "none", preParent |-> Null]

\* what the child argument is to the receiver before an Object2D call
PreOf(a, b) ==
    IF b = Null THEN "null"
    ELSE IF parent_[b] = a THEN "same"
    ELSE IF parent_[b] = Null THEN "detached"
    ELSE "other"

(* ------------------------------------------------------------------ *)
(* Object2D::addChild                                                  *)
(* ------------------------------------------------------------------ *)
\* the guard of addChild: child && child->parent_ != this
AddChildGuard(a, b) == b # Null /\ parent_[b] # a

\* addChild without the detach from the previous parent
AddChildCallNoDetach(a, b) ==
    /\ pc = "idle"
    /\ last' = Call("addChild", a, b, PreOf(a, b))
    /\ pc' = IF AddChildGuard(a, b) THEN "attach" ELSE pc
    /\ UNCHANGED <<parent_, children_, f3dChildren_, attrVars, metalVars, imageVars, restVars, renderVars>>

\* lines 12-15: the guard and the detach from the previous parent
AddChildCall(a, b) ==
    /\ pc = "idle"
    /\ last' = Call("addChild", a, b, PreOf(a, b))
    /\ IF AddChildGuard(a, b)
       THEN /\ IF parent_[b] # Null
               THEN /\ parent_' = ParentAfterRemove(parent_, children_, parent_[b], b)
                    /\ children_' = ChildrenAfterRemove(children_, parent_[b], b)
               ELSE UNCHANGED <<parent_, children_>>
            /\ pc' = "attach"
       ELSE UNCHANGED <<parent_, children_, pc>>
    /\ UNCHANGED <<f3dChildren_, attrVars, metalVars, imageVars, restVars, renderVars>>

\* lines 16-17: child->parent_ = this; children_.push_back(child)
AddChildAttach ==
    /\ pc = "attach"
    /\ parent_' = [parent_ EXCEPT ![last.child] = last.self]
    /\ children_' = [children_ EXCEPT ![last.self] = Append(@, last.child)]
    /\ pc' = "idle"
    /\ UNCHANGED <<f3dChildren_, last, attrVars, metalVars, imageVars, restVars, renderVars>>

(* ------------------------------------------------------------------ *)
(* Object2D::removeChild                                               *)
(* ------------------------------------------------------------------ *)
RemoveChild(a, b) ==
    /\ pc = "idle"
    /\ last' = Call("removeChild", a, b, PreOf(a, b))
    /\ parent_' = ParentAfterRemove(parent_, children_, a, b)
    /\ children_' = ChildrenAfterRemove(children_, a, b)
    /\ UNCHANGED <<f3dChildren_, pc, attrVars, metalVars, imageVars, restVars, renderVars>>

(* ------------------------------------------------------------------ *)
(* Frame3D::addChild, Frame3D::removeChild                             *)
(* ------------------------------------------------------------------ *)
PreOfFrame(f, b) ==
    IF b = Null THEN "null"
    ELSE IF Find(f3dChildren_[f], b) # 0 THEN "same"
    ELSE IF parent_[b] = Null /\ \A g \in Frames : Find(f3dChildren_[g], b) = 0
         THEN "detached"
    ELSE "other"

\* if (child) children_.push_back(child)
FrameAddChild(f, b) ==
    /\ pc = "idle"
    /\ Len(f3dChildren_[f]) < MaxFrameChildren
    /\ last' = Call("frameAddChild", f, b, PreOfFrame(f, b))
    /\ f3dChildren_' = IF b # Null
                       THEN [f3dChildren_ EXCEPT ![f] = Append(@, b)]
                       ELSE f3dChildren_
    /\ UNCHANGED <<parent_, children_, pc, attrVars, metalVars, imageVars, restVars, renderVars>>

FrameRemoveChild(f, b) ==
    /\ pc = "idle"
    /\ last' = Call("frameRemoveChild", f, b, PreOfFrame(f, b))
    /\ f3dChildren_' = ChildrenAfterRemove(f3dChildren_, f, b)
    /\ UNCHANGED <<parent_, children_, pc, attrVars, metalVars, imageVars, restVars, renderVars>>

(* ------------------------------------------------------------------ *)
(* Image                                                               *)
(* ------------------------------------------------------------------ *)
\* isLoaded(): !data_.empty()
loaded == [i \in Images |-> data_[i] # <<>>]

\* an Image call: the operation, the image, whether the arguments were valid
\* (loadFromData: data non-null and width, height, channels positive), the result
ImgCall(op, i, valid, ret) == [op |-> op, image |-> i, valid |-> valid, ret |-> ret]

NoImgCall == ImgCall("none", Null, FALSE, FALSE)

\* Image::Image()
InitImages ==
    /\ width_ = [i \in Images |-> 0]
    /\ height_ = [i \in Images |-> 0]
    /\ channels_ = [i \in Images |-> 0]
    /\ format_ = [i \in Images |-> "Unknown"]
    /\ data_ = [i \in Images |-> <<>>]
    /\ filepath_ = [i \in Images |-> <<>>]
    /\ imgCall = NoImgCall

\* the byte buffers the host passes to loadFromData, the argument values it passes
\* for width, height and channels, the paths it passes to loadFromFile, and the
\* contents of the files it names
Buffers == {<<1, 1>>, <<2, 2>>}
Dims == {-1, 0, 1, 2}
Paths == {<<"a", ".", "P", "N", "G">>, <<"b", ".", "j", "p", "g">>,
          <<"c", ".", "t", "x", "t">>, <<"d">>}
FileContents == {<<>>, <<5>>}

\* filepath.find_last_of(ch): the last index of ch, 0 for npos
FindLastOf(s, ch) ==
    IF \E i \in 1..Len(s) : s[i] = ch
    THEN CHOOSE i \in 1..Len(s) : s[i] = ch /\ \A j \in (i + 1)..Len(s) : s[j] # ch
    ELSE 0

\* ::tolower, on the letters the paths use
ToLower(ch) ==
    CASE ch = "P" -> "p" [] ch = "N" -> "n" [] ch = "G" -> "g" [] ch = "J" -> "j"
      [] ch = "E" -> "e" [] OTHER -> ch

\* Image::detectFormat: the format of the lower-cased extension
DetectFormat(path) ==
    LET dotPos == FindLastOf(path, ".")
        ext == [i \in 1..(Len(path) - dotPos) |-> ToLower(path[dotPos + i])]
    IN  IF dotPos = 0 THEN "Unknown"
        ELSE IF ext = <<"j", "p", "g">> \/ ext = <<"j", "p", "e", "g">> THEN "JPEG"
        ELSE IF ext = <<"p", "n", "g">> THEN "PNG"
        ELSE "Unknown"

\* a loadFromData that accepts any arguments
DataArgsValidAlways(hasData, width, height, channels) == hasData

\* the argument test of loadFromData, negated:
\* !(!data || width <= 0 || height <= 0 || channels <= 0)
DataArgsValid(hasData, width, height, channels) ==
    hasData /\ width > 0 /\ height > 0 /\ channels > 0

\* loadFromData(data, width, height, channels); data is null (hasData false) or
\* points to buf, which holds at least width * height * channels bytes
LoadFromData(i, hasData, buf, width, height, channels) ==
    /\ (hasData /\ width > 0 /\ height > 0 /\ channels > 0) =>
           width * height * channels <= Len(buf)
    /\ IF DataArgsValid(hasData, width, height, channels)
       THEN /\ width_' = [width_ EXCEPT ![i] = width]
            /\ height_' = [height_ EXCEPT ![i] = height]
            /\ channels_' = [channels_ EXCEPT ![i] = channels]
            /\ format_' = [format_ EXCEPT ![i] = "PNG"]
            /\ data_' = [data_ EXCEPT ![i] = SubSeq(buf, 1, width * height * channels)]
       ELSE UNCHANGED <<width_, height_, channels_, format_, data_>>
    /\ imgCall' = ImgCall("loadFromData", i,
                          hasData /\ width > 0 /\ height > 0 /\ channels > 0,
                          DataArgsValid(hasData, width, height, channels))
    /\ UNCHANGED <<filepath_, hierVars, attrVars, metalVars, restVars, renderVars>>

\* loadFromFile(filepath): the file opens or not, the read succeeds or not, and
\* the file holds bytes
LoadFromFile(i, path, opens, reads, bytes) ==
    LET format == DetectFormat(path)
        ok == format # "Unknown" /\ opens /\ reads
    IN  /\ filepath_' = [filepath_ EXCEPT ![i] = path]
        /\ format_' = [format_ EXCEPT ![i] = format]
        /\ IF ok
           THEN /\ width_' = [width_ EXCEPT ![i] = 256]
                /\ height_' = [height_ EXCEPT ![i] = 256]
                /\ channels_' = [channels_ EXCEPT ![i] = 4]
                /\ data_' = [data_ EXCEPT ![i] = bytes]
           ELSE UNCHANGED <<width_, height_, channels_, data_>>
        /\ imgCall' = ImgCall("loadFromFile", i, TRUE, ok)
        /\ UNCHANGED <<hierVars, attrVars, metalVars, restVars, renderVars>>

(* ------------------------------------------------------------------ *)
(* The OpenGL context                                                  *)
(* ------------------------------------------------------------------ *)
\* glGenTextures: the lowest texture name not in use in the context
GenTexture(live) ==
    CHOOSE h \in 1..(Cardinality(live) + 1) :
        h \notin live /\ \A g \in 1..(h - 1) : g \in live

\* an assignment that drops every other entry of the map
MapPutOnly(cache, key, value) == [k \in {key} |-> value]

\* a finite map extended or overwritten at one key: cache[key] = value
MapPut(cache, key, value) ==
    [k \in (DOMAIN cache) \cup {key} |-> IF k = key THEN value ELSE cache[k]]

EmptyMap == [k \in {} |-> 0]

(* ------------------------------------------------------------------ *)
(* History of the renderer steps                                       *)
(* ------------------------------------------------------------------ *)
\* what a step did: the operation, the node or frame it handled, the image whose
\* texture it fetched (Null for none), the texture it drew or created, and what
\* the call returned (for endFrame: whether it waited for the GPU)
Ev(op, n, image, texture, ret) ==
    [op |-> op, n |-> n, image |-> image, texture |-> texture, ret |-> ret]

NoEv == Ev("none", Null, Null, 0, FALSE)

\* one step of a renderScene call: what was done, for which node or frame,
\* whether it took effect (for "frame3d": the framebuffer was complete; for
\* "quad": a quad was drawn; for "drawRect": a texture was created; for
\* "frame2d": a clip region was pushed), and the scissor region it left active
Step(op, n, ok, box) == [op |-> op, n |-> n, ok |-> ok, box |-> box]

\* a GPU texture has been created: noted when a frame has begun
NoteCreated(created) ==
    IF createdSinceBegin = "none" THEN "none"
    ELSE IF created THEN "yes" ELSE createdSinceBegin

(* ------------------------------------------------------------------ *)
(* OpenGLRenderer::OpenGLRenderer, initialize, shutdown                *)
(* ------------------------------------------------------------------ *)
\* the renderer as its constructor leaves it, with no context
InitRenderer ==
    /\ initialized_ = FALSE
    /\ window_ = Null
    /\ shaderProgram_ = 0
    /\ vao_ = 0
    /\ vbo_ = 0
    /\ whiteTexture_ = 0
    /\ textureCache_ = EmptyMap
    /\ textTextureCache_ = EmptyMap
    /\ renderTargetCache_ = EmptyMap
    /\ newTexturesCreatedThisFrame_ = FALSE
    /\ scissorStack_ = <<>>
    /\ currentRenderTargetWidth_ = 0
    /\ currentRenderTargetHeight_ = 0
    /\ glTextures = {}
    /\ glScissorBox = <<0, 0, 0, 0>>
    /\ agenda = <<>>
    /\ ev = NoEv
    /\ firstTexture = EmptyMap
    /\ createdSinceBegin = "none"
    /\ steps = <<>>

\* the host calls the renderer between two calls only, never inside one
HostTurn == agenda = <<>> /\ pc = "idle"

\* how far initialize gets: glfwInit fails, glfwCreateWindow fails, glewInit
\* fails (builds other than __APPLE__), or it runs to the end
InitOutcomes == {"glfwInitFailed", "createWindowFailed", "glewInitFailed", "ok"}

\* initialize(width, height, title), called on a renderer that is not initialized
Initialize(outcome) ==
    /\ HostTurn
    /\ ~initialized_
    /\ ev' = Ev("initialize", Null, Null, 0, outcome = "ok")
    /\ IF outcome \in {"glfwInitFailed", "createWindowFailed"}
       THEN UNCHANGED <<handleVars, glVars, windowShouldClose, closeRequested>>
       ELSE IF outcome = "glewInitFailed"
       THEN /\ window_' = 1
            /\ windowShouldClose' = FALSE
            /\ glTextures' = {}
            /\ glScissorBox' = <<0, 0, WindowSize[1], WindowSize[2]>>
            /\ UNCHANGED <<initialized_, shaderProgram_, vao_, vbo_, whiteTexture_,
                           closeRequested>>
       ELSE /\ window_' = 1
            /\ windowShouldClose' = FALSE
            /\ closeRequested' = FALSE
            /\ shaderProgram_' = 1
            /\ vao_' = 1
            /\ vbo_' = 1
            /\ whiteTexture_' = GenTexture({})
            /\ glTextures' = {GenTexture({})}
            /\ glScissorBox' = <<0, 0, WindowSize[1], WindowSize[2]>>
            /\ initialized_' = TRUE
    /\ UNCHANGED <<hierVars, attrVars, metalVars, imageVars, cameraVars, glTexImage, alive, other,
                   shouldClose_, renderTargetTexture_, cacheVars, frameVars, agenda, histVars>>

\* the guard of shutdown: if (initialized_)
ShutdownGuard == initialized_

\* shutdown(), also run by the destructor
Shutdown ==
    /\ HostTurn
    /\ ev' = Ev("shutdown", Null, Null, 0, ShutdownGuard)
    /\ IF ShutdownGuard
       THEN /\ textureCache_' = EmptyMap
            /\ textTextureCache_' = EmptyMap
            /\ renderTargetCache_' = EmptyMap
            /\ whiteTexture_' = 0
            /\ vbo_' = 0
            /\ vao_' = 0
            /\ shaderProgram_' = 0
            /\ window_' = Null
            /\ initialized_' = FALSE
            /\ glTextures' = {}
            /\ glTexImage' = EmptyMap
            /\ firstTexture' = EmptyMap
            /\ UNCHANGED <<glScissorBox, createdSinceBegin, steps>>
       ELSE UNCHANGED <<handleVars, cacheVars, glVars, glTexImage, histVars>>
    /\ UNCHANGED <<hierVars, attrVars, metalVars, imageVars, cameraVars, alive, other, closeVars, renderTargetTexture_, frameVars, agenda>>

(* ------------------------------------------------------------------ *)
(* beginFrame, endFrame, captureFrame, saveCapture                     *)
(* ------------------------------------------------------------------ *)
\* beginFrame without its guard
BeginFrameGuardNone == TRUE

\* the guard of beginFrame: if (!initialized_) return false
BeginFrameGuard == initialized_

\* the guard of captureFrame: if (!initialized_) return false
CaptureFrameGuard == initialized_

BeginFrame ==
    /\ HostTurn
    /\ ev' = Ev("beginFrame", Null, Null, 0, BeginFrameGuard)
    /\ IF BeginFrameGuard
       THEN /\ newTexturesCreatedThisFrame_' = FALSE
            /\ scissorStack_' = <<>>
            /\ glScissorBox' = <<0, 0, WindowSize[1], WindowSize[2]>>
            /\ currentRenderTargetWidth_' = WindowSize[1]
            /\ currentRenderTargetHeight_' = WindowSize[2]
            /\ createdSinceBegin' = "no"
            /\ UNCHANGED <<glTextures, firstTexture, steps>>
       ELSE UNCHANGED <<frameVars, glVars, histVars>>
    /\ UNCHANGED <<hierVars, attrVars, metalVars, imageVars, restVars, renderTargetTexture_, handleVars, cacheVars,
                   agenda>>

\* whether endFrame calls glFinish after presenting
EndFrameWaits == newTexturesCreatedThisFrame_

\* endFrame(), on an initialized renderer
EndFrame ==
    /\ HostTurn
    /\ initialized_
    /\ ev' = Ev("endFrame", Null, Null, 0, EndFrameWaits)
    /\ UNCHANGED <<hierVars, attrVars, metalVars, imageVars, restVars, renderTargetTexture_, rendererVars, glVars,
                   agenda, histVars>>

\* captureFrame(pixelData, width, height): reads the framebuffer back
CaptureFrame ==
    /\ HostTurn
    /\ ev' = Ev("captureFrame", Null, Null, 0, CaptureFrameGuard)
    /\ UNCHANGED <<hierVars, attrVars, metalVars, imageVars, restVars, renderTargetTexture_, rendererVars, glVars,
                   agenda, histVars>>

\* saveCapture(filename): captureFrame, then a placeholder that returns false
SaveCapture ==
    /\ HostTurn
    /\ ev' = Ev("saveCapture", Null, Null, 0, IF ~CaptureFrameGuard THEN FALSE ELSE FALSE)
    /\ UNCHANGED <<hierVars, attrVars, metalVars, imageVars, restVars, renderTargetTexture_, rendererVars, glVars,
                   agenda, histVars>>

(* ------------------------------------------------------------------ *)
(* Matrices                                                            *)
(* ------------------------------------------------------------------ *)
\* The matrices renderObject2D composes are an orthographic projection of a
\* ow x oh pixel area times an affine map of pixel space, (x, y) |-> (x + tx,
\* sy * y + ty) with sy = 1 or -1; such a matrix is kept as [tx, ty, sy, ow, oh].
\* Coordinates are integers, on which the float arithmetic of the code is exact.
\* flips is the number of offsetMatrix factors in the product.

\* orthoMatrix of renderFrame3DToTexture for a w x h render target
Ortho(w, h) == [tx |-> 0, ty |-> 0, sy |-> 1, ow |-> w, oh |-> h, flips |-> 0]

\* mvp * translationMatrix(x, y)
Translate(m, p) == [m EXCEPT !.tx = @ + p[1], !.ty = @ + m.sy * p[2]]

\* objectMVP * offsetMatrix(height): the Y flip of a Frame2D
Flip(m, height) ==
    [m EXCEPT !.ty = @ + m.sy * height, !.sy = -m.sy, !.flips = @ + 1]

Min(a, b) == IF a <= b THEN a ELSE b
Max(a, b) == IF a >= b THEN a ELSE b
Abs(a) == IF a >= 0 THEN a ELSE -a

\* static_cast<int>(a / b) for b > 0: truncation towards zero
TruncDiv(a, b) == IF a >= 0 THEN a \div b ELSE -((-a) \div b)

\* transformPointToScreen: the screen position of (x, y) times the projection's
\* extent, <<screenX * ow, screenY * oh>>
TransformPointToScreen(x, y, m) ==
    <<(x + m.tx) * currentRenderTargetWidth_,
      (m.sy * y + m.ty) * currentRenderTargetHeight_>>

\* pushScissorRect, lines 752-761: the screen-space rectangle of the corners
\* (x, y) and (x + width, y + height), <<scissorX, scissorY, scissorWidth,
\* scissorHeight>> before clamping
UnclampedRect(x, y, width, height, m) ==
    LET p1 == TransformPointToScreen(x, y, m)
        p2 == TransformPointToScreen(x + width, y + height, m)
    IN  <<TruncDiv(Min(p1[1], p2[1]), m.ow),
          TruncDiv(Min(p1[2], p2[2]), m.oh),
          TruncDiv(Abs(p2[1] - p1[1]), m.ow),
          TruncDiv(Abs(p2[2] - p1[2]), m.oh)>>

\* pushScissorRect, lines 764-767: clamp to the render target bounds
ClampRect(r) ==
    LET x1 == Max(0, Min(r[1], currentRenderTargetWidth_))
        y1 == Max(0, Min(r[2], currentRenderTargetHeight_))
    IN  <<x1, y1,
          Min(r[3], currentRenderTargetWidth_ - x1),
          Min(r[4], currentRenderTargetHeight_ - y1)>>

\* the rectangle pushScissorRect(0, 0, width, height, mvp) pushes
ScissorRectFor(width, height, m) == ClampRect(UnclampedRect(0, 0, width, height, m))

(* ------------------------------------------------------------------ *)
(* renderScene and the traversal                                       *)
(* ------------------------------------------------------------------ *)
\* One entry of the agenda: a call still to be made, or the rest of one in
\* progress. t is "frame3d" (renderFrame3D of frame n), "visit" (renderObject2D
\* of node n with matrix m), "pop" (the popScissorRect after a Frame2D's
\* children), "restore" (the end of renderFrame3DToTexture of frame n, with the
\* saved dimensions sv) or "quad" (the textured quad of frame n).
Item(t, n, m, sv) == [t |-> t, n |-> n, m |-> m, sv |-> sv]

NoMatrix == Ortho(0, 0)

\* a loop that runs over the children from the last to the first
VisitsReversed(children, m) ==
    [i \in 1..Len(children) |->
        Item("visit", children[Len(children) + 1 - i], m, <<0, 0>>)]

\* for (const auto& child : children) renderObject2D(child.get(), m)
Visits(children, m) == [i \in 1..Len(children) |-> Item("visit", children[i], m, <<0, 0>>)]

\* SceneRoot::getCamera
GetCamera == camera_

\* renderScene(scene), on an initialized renderer, for the scene root and its
\* camera: if (!camera) return
RenderScene ==
    /\ HostTurn
    /\ initialized_
    /\ agenda' = IF GetCamera = Null THEN <<>>
                 ELSE [i \in 1..Len(frames_) |-> Item("frame3d", frames_[i], NoMatrix, <<0, 0>>)]
    /\ ev' = Ev("renderScene", Null, Null, 0, TRUE)
    /\ steps' = <<>>
    /\ UNCHANGED <<hierVars, attrVars, metalVars, imageVars, restVars, renderTargetTexture_, rendererVars, glVars,
                   firstTexture, createdSinceBegin>>

\* renderFrame3D(frame, viewProj) up to the children of renderFrame3DToTexture:
\* the visibility test, getOrCreateRenderTarget, the framebuffer, the viewport
RenderFrame3D ==
    /\ agenda # <<>>
    /\ Head(agenda).t = "frame3d"
    /\ LET f == Head(agenda).n
           rest == Tail(agenda)
           hit == f \in DOMAIN renderTargetCache_
           rt == IF hit THEN renderTargetCache_[f] ELSE GenTexture(glTextures)
       IN  IF ~f3dVisible_[f]
           THEN /\ agenda' = rest
                /\ ev' = Ev("skipFrame3d", f, Null, 0, FALSE)
                /\ steps' = Append(steps, Step("skipFrame3d", f, FALSE, glScissorBox))
                /\ UNCHANGED <<renderTargetTexture_, rendererVars, glVars, glTexImage,
                               firstTexture, createdSinceBegin>>
           ELSE /\ ev' = Ev("frame3d", f, Null, rt, ~hit)
                /\ renderTargetCache_' = IF hit THEN renderTargetCache_
                                         ELSE MapPut(renderTargetCache_, f, rt)
                /\ renderTargetTexture_' = IF hit THEN renderTargetTexture_
                                           ELSE [renderTargetTexture_ EXCEPT ![f] = rt]
                /\ glTextures' = glTextures \cup {rt}
                /\ glTexImage' = IF hit THEN glTexImage ELSE MapPut(glTexImage, rt, f3dSize_[f])
                /\ createdSinceBegin' = NoteCreated(~hit)
                /\ \E complete \in BOOLEAN :
                      /\ steps' = Append(steps, Step("frame3d", f, complete,
                               IF complete THEN <<0, 0, f3dSize_[f][1], f3dSize_[f][2]>>
                               ELSE glScissorBox))
                      /\ IF complete
                         THEN /\ currentRenderTargetWidth_' = f3dSize_[f][1]
                              /\ currentRenderTargetHeight_' = f3dSize_[f][2]
                              /\ glScissorBox' = <<0, 0, f3dSize_[f][1], f3dSize_[f][2]>>
                              /\ agenda' = Visits(f3dChildren_[f], Ortho(f3dSize_[f][1], f3dSize_[f][2]))
                                   \o <<Item("restore", f, NoMatrix,
                                             <<currentRenderTargetWidth_, currentRenderTargetHeight_>>),
                                        Item("quad", f, NoMatrix, <<0, 0>>)>>
                                   \o rest
                         ELSE /\ agenda' = <<Item("quad", f, NoMatrix, <<0, 0>>)>> \o rest
                              /\ UNCHANGED <<currentRenderTargetWidth_, currentRenderTargetHeight_,
                                             glScissorBox>>
                /\ UNCHANGED <<handleVars, textureCache_, textTextureCache_, scissorStack_,
                               newTexturesCreatedThisFrame_, firstTexture>>
    /\ UNCHANGED <<hierVars, attrVars, metalVars, imageVars, cameraVars, alive, other, closeVars>>

\* a lookup that never finds the image
TextureCacheHitNever(image) == FALSE

\* the cache lookup of getOrCreateTexture: textureCache_.find(image) != end()
TextureCacheHit(image) == image \in DOMAIN textureCache_

\* a renderObject2D that draws nothing for an invisible node but visits its children
VisitInvisibleDescends ==
    /\ ~visible_[Head(agenda).n]
    /\ agenda' = Visits(children_[Head(agenda).n], Head(agenda).m) \o Tail(agenda)
    /\ ev' = Ev("skip", Head(agenda).n, Null, 0, FALSE)
    /\ steps' = Append(steps, Step("skip", Head(agenda).n, FALSE, glScissorBox))
    /\ UNCHANGED <<rendererVars, glVars, firstTexture, createdSinceBegin>>

\* renderObject2D of an invisible node: if (!object->isVisible()) return
VisitInvisible ==
    /\ ~visible_[Head(agenda).n]
    /\ agenda' = Tail(agenda)
    /\ ev' = Ev("skip", Head(agenda).n, Null, 0, FALSE)
    /\ steps' = Append(steps, Step("skip", Head(agenda).n, FALSE, glScissorBox))
    /\ UNCHANGED <<rendererVars, glVars, firstTexture, createdSinceBegin>>

\* a Frame2D that clips whatever its flag
HasClippingAlways(n) == TRUE

\* bool hasClipping = frame2d->isClippingEnabled()
HasClipping(n) == clipping_enabled_[n]

\* renderObject2D of a visible Frame2D: the flip, pushScissorRect when clipping
\* is enabled; the children and the popScissorRect come next
VisitFrame2D ==
    LET n == Head(agenda).n
        frame2dMVP == Flip(Translate(Head(agenda).m, position_[n]), size_[n][2])
        rect == ScissorRectFor(size_[n][1], size_[n][2], frame2dMVP)
    IN  /\ visible_[n]
        /\ kind[n] = "Frame2D"
        /\ IF HasClipping(n)
           THEN /\ scissorStack_' = Append(scissorStack_, rect)
                /\ glScissorBox' = rect
                /\ ev' = Ev("push", n, Null, 0, TRUE)
                /\ agenda' = Visits(children_[n], frame2dMVP)
                                \o <<Item("pop", n, NoMatrix, <<0, 0>>)>> \o Tail(agenda)
           ELSE /\ ev' = Ev("frame2d", n, Null, 0, FALSE)
                /\ agenda' = Visits(children_[n], frame2dMVP) \o Tail(agenda)
                /\ UNCHANGED <<scissorStack_, glScissorBox>>
        /\ steps' = Append(steps, Step("frame2d", n, HasClipping(n),
                                   IF HasClipping(n) THEN rect ELSE glScissorBox))
        /\ UNCHANGED <<handleVars, cacheVars, newTexturesCreatedThisFrame_,
                       currentRenderTargetWidth_, currentRenderTargetHeight_,
                       glTextures, firstTexture, createdSinceBegin>>

\* renderObject2D of a visible Rectangle: renderRectangle with the texture of
\* its loaded image (getOrCreateTexture) or the white texture; then its children
VisitRectangle ==
    LET n == Head(agenda).n
        objectMVP == Translate(Head(agenda).m, position_[n])
        image == image_[n]
        fetch == image # Null /\ loaded[image]
        hit == fetch /\ TextureCacheHit(image)
        texture == IF ~fetch THEN whiteTexture_
                   ELSE IF hit THEN textureCache_[image]
                   ELSE GenTexture(glTextures)
    IN  /\ visible_[n]
        /\ kind[n] = "Rectangle"
        /\ ev' = Ev("drawRect", n, IF fetch THEN image ELSE Null, texture, fetch /\ ~hit)
        /\ IF fetch /\ ~hit
           THEN /\ glTextures' = glTextures \cup {texture}
                /\ textureCache_' = MapPut(textureCache_, image, texture)
                /\ newTexturesCreatedThisFrame_' = TRUE
                /\ firstTexture' = IF image \in DOMAIN firstTexture THEN firstTexture
                                   ELSE MapPut(firstTexture, image, texture)
                /\ createdSinceBegin' = NoteCreated(TRUE)
           ELSE UNCHANGED <<glTextures, textureCache_, newTexturesCreatedThisFrame_,
                            firstTexture, createdSinceBegin>>
        /\ steps' = Append(steps, Step("drawRect", n, fetch /\ ~hit, glScissorBox))
        /\ agenda' = Visits(children_[n], objectMVP) \o Tail(agenda)
        /\ UNCHANGED <<handleVars, textTextureCache_, renderTargetCache_, scissorStack_,
                       currentRenderTargetWidth_, currentRenderTargetHeight_,
                       glScissorBox>>

\* renderObject2D of a visible Text: renderText is a placeholder; then its children
VisitText ==
    LET n == Head(agenda).n
        objectMVP == Translate(Head(agenda).m, position_[n])
    IN  /\ visible_[n]
        /\ kind[n] = "Text"
        /\ ev' = Ev("text", n, Null, 0, FALSE)
        /\ steps' = Append(steps, Step("text", n, FALSE, glScissorBox))
        /\ agenda' = Visits(children_[n], objectMVP) \o Tail(agenda)
        /\ UNCHANGED <<rendererVars, glVars, firstTexture, createdSinceBegin>>

\* renderObject2D(object, mvp), up to the loop over the children
RenderObject2D ==
    /\ agenda # <<>>
    /\ Head(agenda).t = "visit"
    /\ \/ VisitInvisible
       \/ VisitFrame2D
       \/ VisitRectangle
       \/ VisitText
    /\ UNCHANGED <<hierVars, attrVars, metalVars, imageVars, restVars, renderTargetTexture_>>

\* a pop that leaves the scissor region as it is
ScissorAfterPopKeep(stack) == glScissorBox

\* the scissor region popScissorRect applies once the top is popped
ScissorAfterPop(stack) ==
    IF stack # <<>>
    THEN stack[Len(stack)]
    ELSE <<0, 0, currentRenderTargetWidth_, currentRenderTargetHeight_>>

\* popScissorRect()
PopScissorRect ==
    /\ agenda # <<>>
    /\ Head(agenda).t = "pop"
    /\ LET popped == IF scissorStack_ # <<>>
                     THEN SubSeq(scissorStack_, 1, Len(scissorStack_) - 1)
                     ELSE scissorStack_
       IN  /\ scissorStack_' = popped
           /\ glScissorBox' = ScissorAfterPop(popped)
    /\ agenda' = Tail(agenda)
    /\ ev' = Ev("pop", Head(agenda).n, Null, 0, TRUE)
    /\ steps' = Append(steps, Step("pop", Head(agenda).n, TRUE, glScissorBox'))
    /\ UNCHANGED <<hierVars, attrVars, metalVars, imageVars, restVars, renderTargetTexture_, handleVars, cacheVars,
                   newTexturesCreatedThisFrame_, currentRenderTargetWidth_,
                   currentRenderTargetHeight_, glTextures, firstTexture,
                   createdSinceBegin>>

\* an off-screen pass that leaves the render-target dimensions as they are
RestoredSizeKeep(saved) == <<currentRenderTargetWidth_, currentRenderTargetHeight_>>

\* lines 705-706: the dimensions saved at lines 663-664 are put back
RestoredSize(saved) == saved

\* the end of renderFrame3DToTexture: the window's viewport and scissor region,
\* the saved render-target dimensions
RestoreRenderTarget ==
    /\ agenda # <<>>
    /\ Head(agenda).t = "restore"
    /\ glScissorBox' = <<0, 0, WindowSize[1], WindowSize[2]>>
    /\ currentRenderTargetWidth_' = RestoredSize(Head(agenda).sv)[1]
    /\ currentRenderTargetHeight_' = RestoredSize(Head(agenda).sv)[2]
    /\ agenda' = Tail(agenda)
    /\ ev' = Ev("restore", Head(agenda).n, Null, 0, TRUE)
    /\ steps' = Append(steps, Step("restore", Head(agenda).n, TRUE,
                                   <<0, 0, WindowSize[1], WindowSize[2]>>))
    /\ UNCHANGED <<hierVars, attrVars, metalVars, imageVars, restVars, renderTargetTexture_, handleVars, cacheVars,
                   newTexturesCreatedThisFrame_, scissorStack_, glTextures,
                   firstTexture, createdSinceBegin>>

\* the rest of renderFrame3D: renderTexturedQuad of frame->getRenderTargetTexture()
\* when it is not null
RenderTexturedQuad ==
    /\ agenda # <<>>
    /\ Head(agenda).t = "quad"
    /\ agenda' = Tail(agenda)
    /\ ev' = Ev("quad", Head(agenda).n, Null, renderTargetTexture_[Head(agenda).n],
                renderTargetTexture_[Head(agenda).n] # 0)
    /\ steps' = Append(steps, Step("quad", Head(agenda).n,
                                   renderTargetTexture_[Head(agenda).n] # 0,
                                   glScissorBox))
    /\ UNCHANGED <<hierVars, attrVars, metalVars, imageVars, restVars, renderTargetTexture_, rendererVars, glVars,
                   firstTexture, createdSinceBegin>>

(* ------------------------------------------------------------------ *)
(* Camera                                                              *)
(* ------------------------------------------------------------------ *)
\* Angles are whole quarter turns (0, 90, 180, 270 degrees), where std::cos and
\* std::sin are taken as the exact values 1, 0, -1; positions are integers.
QuarterTurns == 0..3
CameraCoords == {-1, 0, 2}

Cos(q) == <<1, 0, -1, 0>>[(q % 4) + 1]
Sin(q) == <<0, 1, 0, -1>>[(q % 4) + 1]

CamCall(op, matrix) == [op |-> op, matrix |-> matrix]
NoCamCall == CamCall("none", <<>>)

\* Camera::Camera(): at z = 5, no rotation
InitCamera ==
    /\ cameraPosition_ = <<0, 0, 5>>
    /\ cameraRotation_ = <<0, 0, 0>>
    /\ camCall = NoCamCall

InitRest ==
    /\ InitCamera
    /\ glTexImage = EmptyMap
    /\ alive = [n \in Nodes |-> TRUE]
    /\ other = [initialized_ |-> FALSE, renderTargetCache_ |-> EmptyMap, glTextures |-> {}]
    /\ shouldClose_ = FALSE
    /\ windowShouldClose = FALSE
    /\ closeRequested = FALSE

\* Camera::getViewMatrix, lines 81-83: the translation, from the entries r[i][j]
\* (rij of the code, from 1)
ViewTranslation(r, p) ==
    <<-(r[1][1] * p[1] + r[2][1] * p[2] + r[3][1] * p[3]),
      -(r[1][2] * p[1] + r[2][2] * p[2] + r[3][2] * p[3]),
      -(r[1][3] * p[1] + r[2][3] * p[2] + r[3][3] * p[3])>>

\* Camera::getViewMatrix: the 16 floats written, matrix[k] at index k + 1
ViewMatrix(position, rotation) ==
    LET cosPitch == Cos(rotation[1])
        sinPitch == Sin(rotation[1])
        cosYaw == Cos(rotation[2])
        sinYaw == Sin(rotation[2])
        cosRoll == Cos(rotation[3])
        sinRoll == Sin(rotation[3])
        r == <<<<cosYaw * cosRoll, cosYaw * sinRoll, -sinYaw>>,
               <<sinPitch * sinYaw * cosRoll - cosPitch * sinRoll,
                 sinPitch * sinYaw * sinRoll + cosPitch * cosRoll,
                 sinPitch * cosYaw>>,
               <<cosPitch * sinYaw * cosRoll + sinPitch * sinRoll,
                 cosPitch * sinYaw * sinRoll - sinPitch * cosRoll,
                 cosPitch * cosYaw>>>>
        t == ViewTranslation(r, position)
    IN  <<r[1][1], r[2][1], r[3][1], 0,
          r[1][2], r[2][2], r[3][2], 0,
          r[1][3], r[2][3], r[3][3], 0,
          t[1], t[2], t[3], 1>>

SetPosition(x, y, z) ==
    /\ cameraPosition_' = <<x, y, z>>
    /\ camCall' = CamCall("setPosition", <<>>)
    /\ UNCHANGED <<cameraRotation_, glTexImage, alive, other, closeVars, hierVars, attrVars, metalVars,
                   imageVars, renderVars>>

SetRotation(pitch, yaw, roll) ==
    /\ cameraRotation_' = <<pitch, yaw, roll>>
    /\ camCall' = CamCall("setRotation", <<>>)
    /\ UNCHANGED <<cameraPosition_, glTexImage, alive, other, closeVars, hierVars, attrVars, metalVars,
                   imageVars, renderVars>>

GetViewMatrix ==
    /\ camCall' = CamCall("getViewMatrix", ViewMatrix(cameraPosition_, cameraRotation_))
    /\ UNCHANGED <<cameraPosition_, cameraRotation_, glTexImage, alive, other, closeVars, hierVars,
                   attrVars, metalVars, imageVars, renderVars>>

NextCamera ==
    \/ \E x \in CameraCoords, y \in CameraCoords, z \in CameraCoords : SetPosition(x, y, z)
    \/ \E pitch \in QuarterTurns, yaw \in QuarterTurns, roll \in QuarterTurns :
          SetRotation(pitch, yaw, roll)
    \/ GetViewMatrix

(* ------------------------------------------------------------------ *)
(* Specifications of the hierarchy                                     *)
(* ------------------------------------------------------------------ *)
\* the attributes the constructors give: Frame2D(), Frame3D(width, height),
\* Image(), SceneRoot()
InitAttributes ==
    /\ kind = [n \in Nodes |-> "Frame2D"]
    /\ visible_ = [n \in Nodes |-> TRUE]
    /\ position_ = [n \in Nodes |-> <<0, 0>>]
    /\ size_ = [n \in Nodes |-> <<100, 100>>]
    /\ clipping_enabled_ = [n \in Nodes |-> TRUE]
    /\ image_ = [n \in Nodes |-> Null]
    /\ \A i \in Images : ~loaded[i]
    /\ f3dVisible_ = [f \in Frames |-> TRUE]
    /\ f3dSize_ = [f \in Frames |-> <<8, 8>>]
    /\ renderTargetTexture_ = [f \in Frames |-> 0]
    /\ frames_ = <<>>
    /\ camera_ = DefaultCamera

\* the frame counters as the MetalRenderer constructor leaves them
InitMetal ==
    /\ metalInitialized_ = FALSE
    /\ frameCount_ = 0
    /\ totalFrameCount_ = 0
    /\ endFrameCalls = 0
    /\ metalLast = "none"

\* nodes and frames are created detached and empty
Init ==
    /\ parent_ = [n \in Nodes |-> Null]
    /\ children_ = [n \in Nodes |-> <<>>]
    /\ f3dChildren_ = [f \in Frames |-> <<>>]
    /\ pc = "idle"
    /\ last = NoCall
    /\ InitImages
    /\ InitAttributes
    /\ InitRenderer
    /\ InitMetal
    /\ InitRest

\* the Object2D operations
Next ==
    \/ \E a \in Nodes, b \in Nodes \cup {Null} : AddChildCall(a, b)
    \/ AddChildAttach
    \/ \E a \in Nodes, b \in Nodes \cup {Null} : RemoveChild(a, b)

Spec == Init /\ [][Next]_vars

\* the Object2D operations and the Frame3D operations
NextScene ==
    \/ Next
    \/ \E f \in Frames, b \in Nodes \cup {Null} : FrameAddChild(f, b)
    \/ \E f \in Frames, b \in Nodes \cup {Null} : FrameRemoveChild(f, b)

SpecScene == Init /\ [][NextScene]_vars

(* ------------------------------------------------------------------ *)
(* Specification of the renderer                                       *)
(* ------------------------------------------------------------------ *)
\* The scenes the renderer is given. "chain": node n holds node n + 1, every node
\* but the last is a Frame2D, the last a Rectangle with an image. "fan": node 1 is
\* a Rectangle that holds all the others, node 2 a Text, the rest Rectangles.
\* "tree": node 1 is a Frame2D that holds all the others, node 2 an empty Frame2D,
\* the rest Rectangles.
\* Frame f holds node f; the scene root holds the frames in order. Every node is
\* at (1, 1) in its parent but the last, which lies outside its parent's bounds.
SceneKinds == {"chain", "fan", "tree"}

SceneKind(s, n) ==
    IF s = "chain" THEN (IF n < NumNodes THEN "Frame2D" ELSE "Rectangle")
    ELSE IF s = "tree" THEN (IF n <= 2 THEN "Frame2D" ELSE "Rectangle")
    ELSE IF n = 2 THEN "Text" ELSE "Rectangle"

SceneChildren(s, n) ==
    IF s = "chain" THEN (IF n < NumNodes THEN <<n + 1>> ELSE <<>>)
    ELSE IF n = 1 THEN [i \in 1..(NumNodes - 1) |-> i + 1] ELSE <<>>

SceneParent(s, n) ==
    IF n = 1 THEN Null ELSE IF s = "chain" THEN n - 1 ELSE 1

SceneImage(s, n) ==
    IF SceneKind(s, n) # "Rectangle" THEN Null
    ELSE IF n = 1 THEN 1 ELSE (n % NumImages) + 1

InitRender ==
    /\ \E s \in SceneKinds :
          /\ kind = [n \in Nodes |-> SceneKind(s, n)]
          /\ children_ = [n \in Nodes |-> SceneChildren(s, n)]
          /\ parent_ = [n \in Nodes |-> SceneParent(s, n)]
          /\ image_ = [n \in Nodes |-> SceneImage(s, n)]
    /\ f3dChildren_ = [f \in Frames |-> IF f \in Nodes THEN <<f>> ELSE <<>>]
    /\ frames_ = [i \in 1..NumFrames |-> i]
    /\ camera_ = DefaultCamera
    /\ \E hidden \in Nodes \cup {Null} : visible_ = [n \in Nodes |-> n # hidden]
    /\ \E hidden \in Frames \cup {Null} : f3dVisible_ = [f \in Frames |-> f # hidden]
    /\ clipping_enabled_ \in [Nodes -> BOOLEAN]
    /\ \A n \in Nodes : kind[n] # "Frame2D" => clipping_enabled_[n]
    /\ \E empty \in Images \cup {Null} :
          /\ width_ = [i \in Images |-> IF i # empty THEN 1 ELSE 0]
          /\ height_ = [i \in Images |-> IF i # empty THEN 1 ELSE 0]
          /\ channels_ = [i \in Images |-> IF i # empty THEN 4 ELSE 0]
          /\ format_ = [i \in Images |-> IF i # empty THEN "PNG" ELSE "Unknown"]
          /\ data_ = [i \in Images |-> IF i # empty THEN <<1, 1, 1, 1>> ELSE <<>>]
    /\ filepath_ = [i \in Images |-> <<>>]
    /\ imgCall = NoImgCall
    /\ position_ = [n \in Nodes |-> IF n < NumNodes THEN <<1, 1>> ELSE <<NumNodes + 3, 1>>]
    /\ size_ = [n \in Nodes |-> <<NumNodes + 3 - n, NumNodes + 3 - n>>]
    /\ f3dSize_ = [f \in Frames |-> <<8 \div f, 8 \div f>>]
    /\ renderTargetTexture_ = [f \in Frames |-> 0]
    /\ pc = "idle"
    /\ last = NoCall
    /\ InitRenderer
    /\ InitMetal
    /\ InitRest

NextRender ==
    \/ \E outcome \in InitOutcomes : Initialize(outcome)
    \/ Shutdown
    \/ BeginFrame
    \/ EndFrame
    \/ CaptureFrame
    \/ SaveCapture
    \/ RenderScene
    \/ RenderFrame3D
    \/ RenderObject2D
    \/ PopScissorRect
    \/ RestoreRenderTarget
    \/ RenderTexturedQuad

SpecRender == InitRender /\ [][NextRender]_vars

\* the sizes the host gives a Frame3D
FrameSizes == {<<8, 8>>, <<4, 4>>}

\* Frame3D::setSize, called by the host between renderer calls
SetSize(f, width, height) ==
    /\ HostTurn
    /\ f3dSize_' = [f3dSize_ EXCEPT ![f] = <<width, height>>]
    /\ ev' = Ev("setSize", f, Null, 0, TRUE)
    /\ UNCHANGED <<hierVars, kind, visible_, position_, size_, clipping_enabled_, image_,
                   f3dVisible_, frames_, camera_, metalVars, imageVars, restVars,
                   renderTargetTexture_, rendererVars, glVars, agenda, histVars>>

\* one scene, everything visible and loaded
InitResize ==
    /\ InitRender
    /\ kind[1] = "Frame2D"
    /\ children_[1] = <<2>>
    /\ \A n \in Nodes : visible_[n] /\ clipping_enabled_[n]
    /\ \A f \in Frames : f3dVisible_[f]
    /\ \A i \in Images : data_[i] # <<>>

NextResize ==
    \/ NextRender
    \/ \E f \in Frames, size \in FrameSizes : SetSize(f, size[1], size[2])

SpecResize == InitResize /\ [][NextResize]_vars

SpecCamera == Init /\ [][NextCamera]_vars

(* ------------------------------------------------------------------ *)
(* A second renderer instance on the same scene                        *)
(* ------------------------------------------------------------------ *)
\* The second instance has a window and an OpenGL context of its own. Of its
\* state the model keeps what decides the handles it stores in the Frame3Ds:
\* initialized_, renderTargetCache_ and the texture names of its context in use
\* by the white texture and the render targets.

\* initialize() of the second instance, successful
OtherInitialize ==
    /\ HostTurn
    /\ ~other.initialized_
    /\ other' = [initialized_ |-> TRUE, renderTargetCache_ |-> EmptyMap,
                 glTextures |-> {GenTexture({})}]
    /\ ev' = Ev("otherInitialize", Null, Null, 0, TRUE)
    /\ UNCHANGED <<hierVars, attrVars, metalVars, imageVars, cameraVars, glTexImage, alive, closeVars,
                   renderTargetTexture_, rendererVars, glVars, agenda, histVars>>

\* shutdown() of the second instance
OtherShutdown ==
    /\ HostTurn
    /\ other.initialized_
    /\ other' = [initialized_ |-> FALSE, renderTargetCache_ |-> EmptyMap, glTextures |-> {}]
    /\ ev' = Ev("otherShutdown", Null, Null, 0, TRUE)
    /\ UNCHANGED <<hierVars, attrVars, metalVars, imageVars, cameraVars, glTexImage, alive, closeVars,
                   renderTargetTexture_, rendererVars, glVars, agenda, histVars>>

\* renderFrame3D(f) of the second instance: getOrCreateRenderTarget in its
\* context, which stores the handle in the frame when it creates one
OtherRenderFrame3D(f) ==
    /\ HostTurn
    /\ other.initialized_
    /\ f3dVisible_[f]
    /\ LET hit == f \in DOMAIN other.renderTargetCache_
           rt == IF hit THEN other.renderTargetCache_[f] ELSE GenTexture(other.glTextures)
       IN  /\ other' = [other EXCEPT !.renderTargetCache_ = IF hit THEN @ ELSE MapPut(@, f, rt),
                                      !.glTextures = @ \cup {rt}]
           /\ renderTargetTexture_' = IF hit THEN renderTargetTexture_
                                      ELSE [renderTargetTexture_ EXCEPT ![f] = rt]
           /\ ev' = Ev("otherFrame3d", f, Null, rt, ~hit)
    /\ UNCHANGED <<hierVars, attrVars, metalVars, imageVars, cameraVars, glTexImage, alive, closeVars,
                   rendererVars, glVars, agenda, histVars>>

\* two renderer instances rendering the same Frame3Ds
NextShared ==
    \/ NextRender
    \/ OtherInitialize
    \/ OtherShutdown
    \/ \E f \in Frames : OtherRenderFrame3D(f)

SpecShared == InitResize /\ [][NextShared]_vars

(* ------------------------------------------------------------------ *)
(* Calls on a renderer in any state; close requests                    *)
(* ------------------------------------------------------------------ *)
\* None of endFrame, pollEvents, renderScene and renderObject tests
\* initialized_. Before initialize and after shutdown window_ is null and GLFW
\* is terminated; after an initialize that failed at glewInit the window and its
\* context exist and initialized_ is false.

\* a GLFW call handed a null window: the library's assertion aborts the
\* process, or the call reports an error and returns
NullWindowOutcomes == {"crash", "error"}

\* OpenGL calls made with no current context: the process crashes, or the calls
\* go through
NoContextOutcomes == {"crash", "run"}

\* a step of the renderer together with the handles it used
EvTouch(op, n, ret, touched) ==
    [op |-> op, n |-> n, image |-> Null, texture |-> 0, ret |-> ret, touched |-> touched]

\* endFrame() on a renderer that is not initialized: glfwSwapBuffers(window_),
\* then glFinish() if newTexturesCreatedThisFrame_
EndFrameUninitialized ==
    /\ HostTurn
    /\ ~initialized_
    /\ IF window_ = Null
       THEN \E outcome \in NullWindowOutcomes :
               /\ pc' = IF outcome = "crash" THEN "crashed" ELSE pc
               /\ ev' = EvTouch("endFrame", Null, EndFrameWaits,
                                IF outcome = "error" /\ EndFrameWaits THEN {"gl"} ELSE {})
       ELSE /\ pc' = pc
            /\ ev' = EvTouch("endFrame", Null, EndFrameWaits,
                             {"window"} \cup (IF EndFrameWaits THEN {"gl"} ELSE {}))
    /\ UNCHANGED <<parent_, children_, f3dChildren_, last, attrVars, metalVars, imageVars,
                   restVars, renderTargetTexture_, rendererVars, glVars, agenda, histVars>>

\* endFrame()
EndFrameCall == IF initialized_ THEN EndFrame ELSE EndFrameUninitialized

\* pollEvents(): glfwPollEvents() lets the window record a close click, and a
\* pressed Escape key sets shouldClose_
PollEvents ==
    /\ HostTurn
    /\ IF window_ = Null
       THEN \E outcome \in NullWindowOutcomes :
               /\ pc' = IF outcome = "crash" THEN "crashed" ELSE pc
               /\ ev' = EvTouch("pollEvents", Null, FALSE, {})
               /\ UNCHANGED closeVars
       ELSE \E escape \in BOOLEAN, closeClicked \in BOOLEAN :
               /\ pc' = pc
               /\ shouldClose_' = (shouldClose_ \/ escape)
               /\ windowShouldClose' = (windowShouldClose \/ closeClicked)
               /\ closeRequested' = (closeRequested \/ escape \/ closeClicked)
               /\ ev' = EvTouch("pollEvents", Null, escape \/ closeClicked, {"window"})
    /\ UNCHANGED <<parent_, children_, f3dChildren_, last, attrVars, metalVars, imageVars,
                   cameraVars, glTexImage, alive, other, renderTargetTexture_, rendererVars,
                   glVars, agenda, histVars>>

\* shouldClose()
ShouldClose ==
    /\ HostTurn
    /\ ev' = Ev("shouldClose", Null, Null, 0,
                IF window_ = Null THEN TRUE ELSE shouldClose_ \/ windowShouldClose)
    /\ UNCHANGED <<hierVars, attrVars, metalVars, imageVars, restVars, renderTargetTexture_,
                   rendererVars, glVars, agenda, histVars>>

\* renderScene(scene) on a renderer that is not initialized: the same code; it
\* makes OpenGL calls when the scene has a camera and a visible frame
RenderSceneUninitialized ==
    /\ HostTurn
    /\ ~initialized_
    /\ LET frames == IF GetCamera = Null THEN <<>>
                     ELSE [i \in 1..Len(frames_) |->
                              Item("frame3d", frames_[i], NoMatrix, <<0, 0>>)]
           calls == \E i \in 1..Len(frames) : f3dVisible_[frames[i].n]
       IN  \E outcome \in NoContextOutcomes :
              /\ outcome = "crash" => (window_ = Null /\ calls)
              /\ pc' = IF outcome = "crash" THEN "crashed" ELSE pc
              /\ agenda' = IF outcome = "crash" THEN <<>> ELSE frames
    /\ ev' = Ev("renderScene", Null, Null, 0, FALSE)
    /\ steps' = <<>>
    /\ UNCHANGED <<parent_, children_, f3dChildren_, last, attrVars, metalVars, imageVars,
                   restVars, renderTargetTexture_, rendererVars, glVars, firstTexture,
                   createdSinceBegin>>

\* renderScene(scene)
RenderSceneCall == IF initialized_ THEN RenderScene ELSE RenderSceneUninitialized

\* renderObject(object): renderObject2D of the object under the projection of
\* the window; a visible Rectangle, Text or clipping Frame2D makes OpenGL calls
RenderObject(n) ==
    /\ HostTurn
    /\ LET calls == visible_[n] /\ (kind[n] # "Frame2D" \/ clipping_enabled_[n])
       IN  \E outcome \in NoContextOutcomes :
              /\ outcome = "crash" => (window_ = Null /\ calls)
              /\ pc' = IF outcome = "crash" THEN "crashed" ELSE pc
              /\ agenda' = IF outcome = "crash" \/ ~visible_[n] THEN <<>>
                            ELSE <<Item("visit", n, Ortho(WindowSize[1], WindowSize[2]),
                                        <<0, 0>>)>>
    /\ ev' = Ev("renderObject", n, Null, 0, visible_[n])
    /\ steps' = <<>>
    /\ UNCHANGED <<parent_, children_, f3dChildren_, last, attrVars, metalVars, imageVars,
                   restVars, renderTargetTexture_, rendererVars, glVars, firstTexture,
                   createdSinceBegin>>

NextWindow ==
    \/ \E outcome \in InitOutcomes : Initialize(outcome)
    \/ Shutdown
    \/ BeginFrame
    \/ EndFrameCall
    \/ PollEvents
    \/ ShouldClose
    \/ RenderSceneCall
    \/ \E n \in Nodes : RenderObject(n)
    \/ RenderFrame3D
    \/ RenderObject2D
    \/ PopScissorRect
    \/ RestoreRenderTarget
    \/ RenderTexturedQuad

SpecWindow == InitResize /\ [][NextWindow]_vars

(* ------------------------------------------------------------------ *)
(* Object lifetime                                                     *)
(* ------------------------------------------------------------------ *)
\* Nodes are held by std::shared_ptr: by the children_ of their parent and by
\* the host. The host keeps a reference to every node until it drops it.

\* whether some live node holds b among its children
Owned(b) == \E a \in Nodes : alive[a] /\ Find(children_[a], b) # 0

\* ~Object2D() = default, run when the host drops the last reference to a: the
\* children_ vector is destroyed, the parent_ of the children is left as it is
Destroy(a) ==
    /\ pc = "idle"
    /\ alive[a]
    /\ ~Owned(a)
    /\ \A f \in Frames : Find(f3dChildren_[f], a) = 0
    /\ alive' = [alive EXCEPT ![a] = FALSE]
    /\ children_' = [children_ EXCEPT ![a] = <<>>]
    /\ last' = [NoCall EXCEPT !.op = "destroy", !.self = a]
    /\ UNCHANGED <<parent_, f3dChildren_, pc, attrVars, metalVars, imageVars, cameraVars,
                   glTexImage, other, closeVars, renderVars>>

\* whether addChild(a, b) reads through a parent_ that points to a destroyed node
Dangling(a, b) == b # Null /\ parent_[b] # Null /\ ~alive[parent_[b]]

\* the outcomes of child->parent_->removeChild(child) on a destroyed parent:
\* the call crashes, or it reads the freed object as the destroyed one, whose
\* children_ hold nothing, and returns
UseAfterFreeOutcomes == {"crash", "stale"}

\* addChild on live objects
LiveAddChild(a, b) ==
    /\ alive[a]
    /\ b # Null => alive[b]
    /\ IF AddChildGuard(a, b) /\ Dangling(a, b)
       THEN /\ pc = "idle"
            /\ last' = Call("addChild", a, b, PreOf(a, b))
            /\ \E outcome \in UseAfterFreeOutcomes :
                  pc' = IF outcome = "crash" THEN "crashed" ELSE "attach"
            /\ UNCHANGED <<parent_, children_, f3dChildren_, attrVars, metalVars, imageVars,
                           restVars, renderVars>>
       ELSE AddChildCall(a, b)

\* removeChild on live objects
LiveRemoveChild(a, b) ==
    /\ alive[a]
    /\ b # Null => alive[b]
    /\ RemoveChild(a, b)

NextLifetime ==
    \/ \E a \in Nodes, b \in Nodes \cup {Null} : LiveAddChild(a, b)
    \/ AddChildAttach
    \/ \E a \in Nodes, b \in Nodes \cup {Null} : LiveRemoveChild(a, b)
    \/ \E a \in Nodes : Destroy(a)

SpecLifetime == Init /\ [][NextLifetime]_vars

(* ------------------------------------------------------------------ *)
(* Specification of the clip-region stack                              *)
(* ------------------------------------------------------------------ *)
\* the sizes of the current render target: the window, a Frame3D's render target
TargetSizes == {WindowSize, <<4, 4>>}

\* the positions and sizes of the Frame2Ds whose rectangle is pushed
RectPositions == {<<-3, -2>>, <<2, 1>>, <<9, 1>>}
RectSizes == {<<2, 2>>, <<5, 5>>, <<12, 3>>}

\* a renderer inside a frame, with some render target current and no clip region
InitScissor ==
    /\ parent_ = [n \in Nodes |-> Null]
    /\ children_ = [n \in Nodes |-> <<>>]
    /\ f3dChildren_ = [f \in Frames |-> <<>>]
    /\ pc = "idle"
    /\ last = NoCall
    /\ InitImages
    /\ InitAttributes
    /\ InitMetal
    /\ InitRest
    /\ initialized_ = TRUE
    /\ window_ = 1
    /\ shaderProgram_ = 1
    /\ vao_ = 1
    /\ vbo_ = 1
    /\ whiteTexture_ = GenTexture({})
    /\ textureCache_ = EmptyMap
    /\ textTextureCache_ = EmptyMap
    /\ renderTargetCache_ = EmptyMap
    /\ newTexturesCreatedThisFrame_ = FALSE
    /\ scissorStack_ = <<>>
    /\ \E t \in TargetSizes :
          /\ currentRenderTargetWidth_ = t[1]
          /\ currentRenderTargetHeight_ = t[2]
          /\ glScissorBox = <<0, 0, t[1], t[2]>>
    /\ glTextures = {GenTexture({})}
    /\ agenda = <<>>
    /\ ev = NoEv
    /\ firstTexture = EmptyMap
    /\ createdSinceBegin = "no"
    /\ steps = <<>>

\* pushScissorRect(0, 0, width, height, mvp) for a Frame2D of the given size at
\* the given position of the current render target, flipped or not
PushScissorRect(position, size, flipped) ==
    LET ortho == Ortho(currentRenderTargetWidth_, currentRenderTargetHeight_)
        objectMVP == Translate(ortho, position)
        mvp == IF flipped THEN Flip(objectMVP, size[2]) ELSE objectMVP
        rect == ScissorRectFor(size[1], size[2], mvp)
    IN  /\ Len(scissorStack_) < MaxClipDepth
        /\ scissorStack_' = Append(scissorStack_, rect)
        /\ glScissorBox' = rect
        /\ ev' = [op |-> "pushScissorRect", n |-> Null, image |-> Null, texture |-> 0,
                  ret |-> TRUE, rect |-> UnclampedRect(0, 0, size[1], size[2], mvp)]
        /\ UNCHANGED <<hierVars, attrVars, metalVars, imageVars, restVars, renderTargetTexture_,
                       handleVars, cacheVars, newTexturesCreatedThisFrame_,
                       currentRenderTargetWidth_, currentRenderTargetHeight_,
                       glTextures, agenda, histVars>>

\* popScissorRect(), called directly
PopScissorRectCall ==
    /\ agenda = <<>>
    /\ LET popped == IF scissorStack_ # <<>>
                     THEN SubSeq(scissorStack_, 1, Len(scissorStack_) - 1)
                     ELSE scissorStack_
       IN  /\ scissorStack_' = popped
           /\ glScissorBox' = ScissorAfterPop(popped)
    /\ ev' = Ev("popScissorRect", Null, Null, 0, scissorStack_ # <<>>)
    /\ UNCHANGED <<hierVars, attrVars, metalVars, imageVars, restVars, renderTargetTexture_,
                   handleVars, cacheVars, newTexturesCreatedThisFrame_,
                   currentRenderTargetWidth_, currentRenderTargetHeight_,
                   glTextures, agenda, histVars>>

NextScissor ==
    \/ \E position \in RectPositions, size \in RectSizes, flipped \in BOOLEAN :
          PushScissorRect(position, size, flipped)
    \/ PopScissorRectCall

SpecScissor == InitScissor /\ [][NextScissor]_vars

(* ------------------------------------------------------------------ *)
(* Specification of the images                                         *)
(* ------------------------------------------------------------------ *)
\* the image the host loads
FirstImage == CHOOSE i \in Images : \A j \in Images : i <= j

NextImage ==
    \/ \E hasData \in BOOLEAN, buf \in Buffers, width, height, channels \in Dims :
          LoadFromData(FirstImage, hasData, buf, width, height, channels)
    \/ \E path \in Paths, opens, reads \in BOOLEAN, bytes \in FileContents :
          LoadFromFile(FirstImage, path, opens, reads, bytes)

SpecImage == Init /\ [][NextImage]_vars

(* ------------------------------------------------------------------ *)
(* SceneRoot                                                           *)
(* ------------------------------------------------------------------ *)
\* setCamera(camera): camera_ = camera
SetCamera(c) ==
    /\ pc = "idle"
    /\ last' = [NoCall EXCEPT !.op = "setCamera", !.child = c]
    /\ camera_' = c
    /\ UNCHANGED <<parent_, children_, f3dChildren_, pc, kind, visible_, position_,
                   size_, clipping_enabled_, image_, f3dVisible_, f3dSize_,
                   frames_, metalVars, imageVars, restVars, renderVars>>

\* addFrame3D(frame): if (frame) frames_.push_back(frame)
AddFrame3D(f) ==
    /\ pc = "idle"
    /\ Len(frames_) < MaxSceneFrames
    /\ last' = [NoCall EXCEPT !.op = "addFrame3D", !.child = f]
    /\ frames_' = IF f # Null THEN Append(frames_, f) ELSE frames_
    /\ UNCHANGED <<parent_, children_, f3dChildren_, pc, kind, visible_, position_,
                   size_, clipping_enabled_, image_, f3dVisible_, f3dSize_,
                   camera_, metalVars, imageVars, restVars, renderVars>>

\* removeFrame3D(frame): the first occurrence is erased
RemoveFrame3D(f) ==
    /\ pc = "idle"
    /\ last' = [NoCall EXCEPT !.op = "removeFrame3D", !.child = f]
    /\ frames_' = IF Find(frames_, f) # 0 THEN EraseAt(frames_, Find(frames_, f))
                  ELSE frames_
    /\ UNCHANGED <<parent_, children_, f3dChildren_, pc, kind, visible_, position_,
                   size_, clipping_enabled_, image_, f3dVisible_, f3dSize_,
                   camera_, metalVars, imageVars, restVars, renderVars>>

\* clear(): frames_.clear()
ClearFrames ==
    /\ pc = "idle"
    /\ last' = [NoCall EXCEPT !.op = "clear"]
    /\ frames_' = <<>>
    /\ UNCHANGED <<parent_, children_, f3dChildren_, pc, kind, visible_, position_,
                   size_, clipping_enabled_, image_, f3dVisible_, f3dSize_,
                   camera_, metalVars, imageVars, restVars, renderVars>>

NextSceneRoot ==
    \/ \E c \in Cameras \cup {Null} : SetCamera(c)
    \/ \E f \in Frames \cup {Null} : AddFrame3D(f)
    \/ \E f \in Frames \cup {Null} : RemoveFrame3D(f)
    \/ ClearFrames

SpecSceneRoot == Init /\ [][NextSceneRoot]_vars

(* ------------------------------------------------------------------ *)
(* MetalRenderer: frame counting                                       *)
(* ------------------------------------------------------------------ *)
\* MetalRenderer::initialize, on a renderer that is not initialized: the counters
\* start from zero when it succeeds
MetalInitialize(ok) ==
    /\ ~metalInitialized_
    /\ metalLast' = "initialize"
    /\ IF ok
       THEN /\ metalInitialized_' = TRUE
            /\ frameCount_' = 0
            /\ totalFrameCount_' = 0
            /\ endFrameCalls' = 0
       ELSE UNCHANGED <<metalInitialized_, frameCount_, totalFrameCount_, endFrameCalls>>
    /\ UNCHANGED <<hierVars, attrVars, imageVars, restVars, renderVars>>

\* MetalRenderer::shutdown
MetalShutdown ==
    /\ metalLast' = "shutdown"
    /\ metalInitialized_' = FALSE
    /\ UNCHANGED <<frameCount_, totalFrameCount_, endFrameCalls>>
    /\ UNCHANGED <<hierVars, attrVars, imageVars, restVars, renderVars>>

\* MetalRenderer::beginFrame: the counters are left alone
MetalBeginFrame ==
    /\ metalLast' = "beginFrame"
    /\ UNCHANGED <<metalInitialized_, frameCount_, totalFrameCount_, endFrameCalls>>
    /\ UNCHANGED <<hierVars, attrVars, imageVars, restVars, renderVars>>

\* a total counter that the FPS update resets with the windowed one
TotalAfterEndFrameWindowed(total, fpsUpdate) == IF fpsUpdate THEN 0 ELSE total + 1

\* the total frame counter after an endFrame: never reset
TotalAfterEndFrame(total, fpsUpdate) == total + 1

\* MetalRenderer::endFrame on an initialized renderer: both counters count the
\* frame; when the FPS estimate is recomputed the windowed counter starts again
MetalEndFrame ==
    /\ metalInitialized_
    /\ totalFrameCount_ < MaxFrameCount
    /\ metalLast' = "endFrame"
    /\ \E fpsUpdate \in BOOLEAN :
          /\ frameCount_' = IF fpsUpdate THEN 0 ELSE frameCount_ + 1
          /\ totalFrameCount_' = TotalAfterEndFrame(totalFrameCount_, fpsUpdate)
    /\ endFrameCalls' = endFrameCalls + 1
    /\ UNCHANGED <<metalInitialized_, hierVars, attrVars, imageVars, restVars, renderVars>>

\* MetalRenderer::getFrameCount
GetFrameCount == totalFrameCount_

NextMetal ==
    \/ \E ok \in BOOLEAN : MetalInitialize(ok)
    \/ MetalShutdown
    \/ MetalBeginFrame
    \/ MetalEndFrame

SpecMetal == Init /\ [][NextMetal]_vars

(* ------------------------------------------------------------------ *)
(* Claims about the hierarchy                                          *)
(* ------------------------------------------------------------------ *)
\* x is an element of the sequence s
InSeq(s, x) == Find(s, x) # 0

\* an Object2D call has returned
Returned(op) == pc = "idle" /\ last.op = op

\* C1: after A.addChild(B) with B non-null has returned, B's parent is A and B
\* occurs exactly once in A's children, whatever B was to A before the call.
C1_AddChildPost ==
    (Returned("addChild") /\ last.child # Null) =>
        /\ parent_[last.child] = last.self
        /\ Count(children_[last.self], last.child) = 1

\* C1 witness: addChild has returned for a node that already was a child of the receiver
C1_Witness == Returned("addChild") /\ last.pre = "same" /\ Len(children_[last.self]) = 2

\* C2 as stated: after A.removeChild(B), B's parent is null and B is absent from A's
\* children, for all nodes A and B.
C2_RemoveChildAlwaysNull ==
    (Returned("removeChild") /\ last.child # Null) =>
        /\ parent_[last.child] = Null
        /\ ~InSeq(children_[last.self], last.child)

\* C2 amended: after A.removeChild(B), B is absent from A's children; B's parent is
\* null when B was a child of A before the call and is what it was before the call
\* otherwise.
C2_RemoveChildPost ==
    (Returned("removeChild") /\ last.child # Null) =>
        /\ ~InSeq(children_[last.self], last.child)
        /\ parent_[last.child] = IF last.preParent = last.self THEN Null ELSE last.preParent

\* C2 witness: removeChild has returned for a node that was a child of the receiver
C2_Witness ==
    /\ Returned("removeChild")
    /\ last.child # Null
    /\ last.preParent = last.self

\* C3: when B has parent A and C.addChild(B) is called with C # A, B leaves A's
\* children before it enters C's; afterwards B is in C's children only; and in no
\* state, the one inside the call included, is a node in the children of two nodes.
C3_ReparentNeverInBoth ==
    /\ \A b \in Nodes : \A a, c \in Nodes :
          a # c => ~(InSeq(children_[a], b) /\ InSeq(children_[c], b))
    /\ (pc = "attach" /\ last.pre = "other") =>
          \A a \in Nodes : ~InSeq(children_[a], last.child)
    /\ (Returned("addChild") /\ last.pre = "other") =>
          \A a \in Nodes : InSeq(children_[a], last.child) <=> a = last.self

\* C3 witness: a node that had another parent has been re-parented
C3_Witness ==
    /\ Returned("addChild")
    /\ last.pre = "other"
    /\ last.preParent # last.self
    /\ InSeq(children_[last.self], last.child)

\* the number of places a node is owned from: the child sequences of all Object2D
\* nodes and of all Frame3D containers
Owners(b) ==
    LET RECURSIVE SumN(_), SumF(_)
        SumN(n) == IF n = 0 THEN 0 ELSE Count(children_[n], b) + SumN(n - 1)
        SumF(f) == IF f = 0 THEN 0 ELSE Count(f3dChildren_[f], b) + SumF(f - 1)
    IN  SumN(NumNodes) + SumF(NumFrames)

\* C4 as stated: after any sequence of addChild/removeChild calls on Object2D nodes
\* and Frame3D containers every node is in the child sequence of at most one owner,
\* at most once.
C4_AtMostOneOwner == pc = "idle" => \A b \in Nodes : Owners(b) <= 1

\* C5 as stated: addChild(node), of an Object2D or of a Frame3D, changes no child
\* sequence and no parent back-reference when node is null or already a child of
\* the receiver.
C5_AddChildNoOp ==
    [][(/\ pc = "idle"
        /\ pc' = "idle"
        /\ last'.op \in {"addChild", "frameAddChild"}
        /\ last'.pre \in {"null", "same"})
       => UNCHANGED <<parent_, children_, f3dChildren_>>]_vars

(* ------------------------------------------------------------------ *)
(* Claims about the renderer                                           *)
(* ------------------------------------------------------------------ *)
\* C6: on a renderer that is not initialized, beginFrame, captureFrame and
\* saveCapture return false and change nothing of the renderer: handles, caches,
\* clip stack, new-texture flag, render-target dimensions, the context.
C6_UninitializedNoOp ==
    [][(~initialized_ /\ ev'.op \in {"beginFrame", "captureFrame", "saveCapture"})
       => (ev'.ret = FALSE /\ UNCHANGED <<rendererVars, glVars, renderTargetTexture_>>)]_vars

\* C6 witness: beginFrame has returned false on a renderer that was shut down
\* after it had rendered a frame
C6_Witness ==
    /\ ev.op = "beginFrame"
    /\ ev.ret = FALSE
    /\ ~initialized_
    /\ \E f \in Frames : renderTargetTexture_[f] # 0

\* everything shutdown releases is released
Cleared ==
    /\ textureCache_ = EmptyMap
    /\ textTextureCache_ = EmptyMap
    /\ renderTargetCache_ = EmptyMap
    /\ whiteTexture_ = 0
    /\ vbo_ = 0
    /\ shaderProgram_ = 0
    /\ window_ = Null
    /\ ~initialized_

\* C7 as stated: after shutdown() the three caches are empty, the fallback texture,
\* vertex buffer, program and window handles are cleared and the renderer is not
\* initialized; a shutdown() that follows a shutdown() changes nothing.
C7_ShutdownClears ==
    [][(ev'.op = "shutdown") =>
          /\ Cleared'
          /\ (ev.op = "shutdown" => UNCHANGED <<rendererVars, glVars>>)]_vars

\* C8: between initialize and shutdown the first fetch of an image's texture
\* creates one texture and sets the new-texture flag; every later fetch of the same
\* image gives the texture of the first fetch, creates none and leaves the flag.
C8_TextureCacheIdempotent ==
    [][(ev'.op = "drawRect" /\ ev'.image # Null) =>
          IF ev'.image \in DOMAIN firstTexture
          THEN /\ ev'.texture = firstTexture[ev'.image]
               /\ ev'.ret = FALSE
               /\ glTextures' = glTextures
               /\ newTexturesCreatedThisFrame_' = newTexturesCreatedThisFrame_
          ELSE /\ ev'.texture \notin glTextures
               /\ ev'.ret = TRUE
               /\ glTextures' = glTextures \cup {ev'.texture}
               /\ newTexturesCreatedThisFrame_' = TRUE]_vars

\* C8 witness: a second image is in the cache and a fetch has just hit the cache
C8_Witness ==
    /\ ev.op = "drawRect"
    /\ ev.image # Null
    /\ ev.ret = FALSE
    /\ Cardinality(DOMAIN textureCache_) = 2
    /\ ev.texture = textureCache_[ev.image]

\* C9: a push makes the pushed rectangle the top of the stack and the active
\* region; a pop removes the top only, and makes the new top the active region, or
\* the full current render target when the stack is empty. So R1, R2, pop gives
\* R1 as it was pushed, and a second pop the full target.
C9_ClipRegionStacking ==
    [][/\ (ev'.op = "push") =>
             /\ Len(scissorStack_') = Len(scissorStack_) + 1
             /\ SubSeq(scissorStack_', 1, Len(scissorStack_)) = scissorStack_
             /\ glScissorBox' = scissorStack_'[Len(scissorStack_')]
       /\ (ev'.op = "pop") =>
             /\ scissorStack_ # <<>>
             /\ scissorStack_' = SubSeq(scissorStack_, 1, Len(scissorStack_) - 1)
             /\ glScissorBox' =
                   IF scissorStack_' # <<>>
                   THEN scissorStack_[Len(scissorStack_) - 1]
                   ELSE <<0, 0, currentRenderTargetWidth_', currentRenderTargetHeight_'>>]_vars

\* C9 witness: R1 and R2 were pushed, R2 was popped, and R1 is the active region
C9_Witness ==
    /\ ev.op = "pop"
    /\ Len(scissorStack_) = 1
    /\ glScissorBox = scissorStack_[1]
    /\ glScissorBox # <<0, 0, currentRenderTargetWidth_, currentRenderTargetHeight_>>

\* C10 as stated: endFrame waits for the GPU if and only if a GPU texture, an
\* image texture or a Frame3D render-target texture, was created since the most
\* recent successful beginFrame.
C10_EndFrameWaitsIffCreated ==
    (ev.op = "endFrame" /\ createdSinceBegin # "none") =>
        (ev.ret <=> createdSinceBegin = "yes")

\* node n is reached by the traversal of the scene: it is visible and it is a
\* child of a visible Frame3D of the scene or of a node that is reached
RECURSIVE OnVisiblePath(_, _)
OnVisiblePath(n, depth) ==
    /\ visible_[n]
    /\ \/ \E f \in Frames :
             f3dVisible_[f] /\ InSeq(frames_, f) /\ InSeq(f3dChildren_[f], n)
       \/ /\ depth > 0
          /\ \E p \in Nodes : InSeq(children_[p], n) /\ OnVisiblePath(p, depth - 1)

C12_FailedPassSkipsFrame ==
    /\ \A i \in 1..Len(steps) :
          (steps[i].op = "frame3d" /\ ~steps[i].ok) =>
              \A j \in (i + 1)..Len(steps) :
                  ~(steps[j].op = "quad" /\ steps[j].n = steps[i].n /\ steps[j].ok)
    /\ (ev.op # "none" /\ agenda = <<>> /\ steps # <<>>) =>
          \A k \in 1..Len(frames_) : \E i \in 1..Len(steps) :
              steps[i].op \in {"frame3d", "skipFrame3d"} /\ steps[i].n = frames_[k]

\* the number of steps the traversal of the subtree of node c takes, and of the
\* subtrees of a sequence of nodes
RECURSIVE Span(_), SpanSeq(_)
Span(c) ==
    IF ~visible_[c] THEN 1
    ELSE 1 + SpanSeq(children_[c])
           + (IF kind[c] = "Frame2D" /\ clipping_enabled_[c] THEN 1 ELSE 0)

SpanSeq(cs) == IF cs = <<>> THEN 0 ELSE Span(Head(cs)) + SpanSeq(Tail(cs))

\* the index of the step that visits the k-th child of node n, when step i visits n
ChildStep(i, n, k) == i + 1 + SpanSeq(SubSeq(children_[n], 1, k - 1))

\* C13: the visit of a Frame2D whose clipping is disabled leaves the clip stack and
\* the active scissor region as they are and is followed by no pop; each of its
\* children is visited, in order, with the region that was active on entry to the
\* frame, and a visible Rectangle among them is drawn wherever it is positioned.
C13_NoClippingWhenDisabled ==
    [][/\ (ev'.op \in {"frame2d", "push"} /\ ~clipping_enabled_[ev'.n]) =>
             UNCHANGED <<scissorStack_, glScissorBox>>
       /\ \A i \in 1..Len(steps') :
             (steps'[i].op = "frame2d" /\ ~clipping_enabled_[steps'[i].n]) =>
                 LET n == steps'[i].n
                     after == ChildStep(i, n, Len(children_[n]) + 1)
                 IN  /\ i > 1
                     /\ steps'[i].box = steps'[i - 1].box
                     /\ \A k \in 1..Len(children_[n]) :
                           LET p == ChildStep(i, n, k)
                               c == children_[n][k]
                           IN  p <= Len(steps') =>
                                   /\ steps'[p].n = c
                                   /\ steps'[p].op # "pop"
                                   /\ steps'[p - 1].box = steps'[i].box
                                   /\ (visible_[c] /\ kind[c] = "Rectangle") =>
                                          (steps'[p].op = "drawRect"
                                             /\ steps'[p].box = steps'[i].box)
                     /\ after <= Len(steps') =>
                           ~(steps'[after].op = "pop" /\ steps'[after].n = n)]_vars

\* C13 witness: inside a clipping Frame2D, a Frame2D with clipping disabled was
\* traversed and its Rectangle child, positioned outside the frame's bounds, was
\* drawn with the outer frame's region active
C13_Witness ==
    \E i \in 2..(Len(steps) - 1) :
        /\ steps[i].op = "frame2d"
        /\ ~clipping_enabled_[steps[i].n]
        /\ steps[i - 1].op = "frame2d"
        /\ steps[i - 1].ok
        /\ steps[i + 1].op = "drawRect"
        /\ steps[i + 1].n = children_[steps[i].n][1]
        /\ position_[steps[i + 1].n][1] >= size_[steps[i].n][1]
        /\ steps[i + 1].box = steps[i - 1].box
        /\ scissorStack_ = <<steps[i - 1].box>>

C15_CachesOnlyGrow ==
    [][(initialized_ /\ ev'.op # "shutdown") =>
          /\ \A i \in DOMAIN textureCache_ :
                i \in DOMAIN textureCache_' /\ textureCache_'[i] = textureCache_[i]
          /\ \A f \in DOMAIN renderTargetCache_ :
                f \in DOMAIN renderTargetCache_'
                   /\ renderTargetCache_'[f] = renderTargetCache_[f]
          /\ textureCache_' # textureCache_ =>
                /\ ev'.op = "drawRect"
                /\ DOMAIN textureCache_' = DOMAIN textureCache_ \cup {ev'.image}
                /\ ev'.image \notin DOMAIN textureCache_
          /\ renderTargetCache_' # renderTargetCache_ =>
                /\ ev'.op = "frame3d"
                /\ DOMAIN renderTargetCache_' = DOMAIN renderTargetCache_ \cup {ev'.n}
                /\ ev'.n \notin DOMAIN renderTargetCache_]_vars

\* C15 witness: a frame begins with two entries in each cache, all of them kept
C15_Witness ==
    /\ ev.op = "beginFrame"
    /\ ev.ret
    /\ Cardinality(DOMAIN textureCache_) >= 2
    /\ Cardinality(DOMAIN renderTargetCache_) >= 2
    /\ \A i \in DOMAIN textureCache_ : textureCache_[i] = firstTexture[i]

\* C16 as stated: in every state reached by setCamera, addFrame3D, removeFrame3D
\* and clear calls on a SceneRoot, getCamera() is a camera, never null.
C16_AlwaysHasCamera == GetCamera # Null

\* the state of image i: pixel buffer, width, height, channels, format
ImageState(i) == <<data_[i], width_[i], height_[i], channels_[i], format_[i]>>

\* C17: loadFromData with null data or a non-positive width, height or channel
\* count returns false and leaves the image's pixel buffer, width, height,
\* channels, format and loaded flag as they were; a fresh image stays not loaded.
C17_LoadFromDataRejects ==
    [][(imgCall'.op = "loadFromData" /\ ~imgCall'.valid) =>
          /\ imgCall'.ret = FALSE
          /\ \A i \in Images : ImageState(i)' = ImageState(i)
          /\ \A i \in Images : loaded'[i] = loaded[i]]_vars

\* C17 witness: a loadFromData with invalid arguments has returned false on an
\* image that an earlier call had loaded, which is loaded still
C17_Witness ==
    /\ imgCall.op = "loadFromData"
    /\ ~imgCall.valid
    /\ ~imgCall.ret
    /\ loaded[imgCall.image]
    /\ width_[imgCall.image] = 2

\* C18 as stated: once an image is loaded, no later loadFromFile or loadFromData
\* on it, successful or failing, changes its width, height, channel count, pixel
\* buffer or format tag.
C18_ImmutableOnceLoaded ==
    [][\A i \in Images : loaded[i] => ImageState(i)' = ImageState(i)]_vars

\* the step a visit of node c makes
VisitOp(c) ==
    IF ~visible_[c] THEN "skip"
    ELSE IF kind[c] = "Frame2D" THEN "frame2d"
    ELSE IF kind[c] = "Rectangle" THEN "drawRect"
    ELSE "text"

\* a step that starts a Frame3D of the scene
IsFrameStep(st) == st.op \in {"frame3d", "skipFrame3d"}

\* steps p, p + 1, ... visit the nodes of cs in order, each after the whole
\* subtree of the one before it, as far as the call has come
VisitedInOrder(p, cs) ==
    \A k \in 1..Len(cs) :
        LET q == p + SpanSeq(SubSeq(cs, 1, k - 1))
        IN  q <= Len(steps) => (steps[q].n = cs[k] /\ steps[q].op = VisitOp(cs[k]))

\* C19: renderScene starts the scene's Frame3Ds in sequence order; a frame's
\* off-screen pass (its children, then the restore) is finished before its quad is
\* composited; in a 2D subtree the step of a visible node, whatever its kind, is
\* followed by the visits of its children in sequence order, each child's subtree
\* being finished before the next child is visited.
C19_TraversalOrder ==
    /\ LET fs == SelectSeq(steps, IsFrameStep)
       IN  /\ Len(fs) <= Len(frames_)
           /\ \A k \in 1..Len(fs) : fs[k].n = frames_[k]
           /\ (agenda = <<>> /\ steps # <<>>) => Len(fs) = Len(frames_)
    /\ \A i \in 1..Len(steps) :
          LET st == steps[i]
              end == i + 1 + SpanSeq(f3dChildren_[st.n])
          IN  /\ (st.op = "frame3d" /\ st.ok) =>
                    /\ VisitedInOrder(i + 1, f3dChildren_[st.n])
                    /\ end <= Len(steps) =>
                          (steps[end].op = "restore" /\ steps[end].n = st.n)
                    /\ end + 1 <= Len(steps) =>
                          (steps[end + 1].op = "quad" /\ steps[end + 1].n = st.n)
              /\ (st.op = "frame3d" /\ ~st.ok /\ i + 1 <= Len(steps)) =>
                    (steps[i + 1].op = "quad" /\ steps[i + 1].n = st.n)
              /\ st.op \in {"frame2d", "drawRect", "text"} =>
                    /\ st.op = VisitOp(st.n)
                    /\ VisitedInOrder(i + 1, children_[st.n])
              /\ st.op = "skip" => ~visible_[st.n]

\* C19 witness: a renderScene call is complete; it rendered a Frame3D after
\* another, and in one of them a Rectangle, then its first child, then its second
C19_Witness ==
    /\ agenda = <<>>
    /\ steps # <<>>
    /\ steps[Len(steps)].op = "quad"
    /\ \E i, j \in 1..Len(steps) :
          /\ i < j
          /\ steps[i].op = "quad"
          /\ steps[j].op = "frame3d"
          /\ steps[j].ok
    /\ \E i \in 1..(Len(steps) - 2) :
          /\ steps[i].op = "drawRect"
          /\ Len(children_[steps[i].n]) >= 2
          /\ steps[i + 1].op = "text"
          /\ steps[i + 1].n = children_[steps[i].n][1]
          /\ steps[i + 2].op = "drawRect"
          /\ steps[i + 2].n = children_[steps[i].n][2]

\* the number of Frame2Ds on the traversal path to step q: the Frame2D steps
\* before q whose subtree q lies in
EnclosingFrame2Ds(q) ==
    Cardinality({i \in 1..(q - 1) :
                    /\ steps[i].op = "frame2d"
                    /\ q <= i + SpanSeq(children_[steps[i].n])})

\* C20 as stated: the matrix a node inside a Frame2D is drawn with has the Y flip
\* composed into it exactly once, however many Frame2Ds are on the path to it.
C20_FlipExactlyOnce ==
    [][(ev'.op \in {"drawRect", "text"} /\ (EnclosingFrame2Ds(Len(steps)))' >= 1) =>
          Translate(Head(agenda).m, position_[ev'.n]).flips = 1]_vars

\* the intersection of the rectangle r with the w x h target, <<x, y, width,
\* height>>, of width or height 0 when they do not meet
IntersectTarget(r, w, h) ==
    LET lox == Max(r[1], 0)
        loy == Max(r[2], 0)
        hix == Min(r[1] + r[3], w)
        hiy == Min(r[2] + r[4], h)
    IN  <<lox, loy, Max(0, hix - lox), Max(0, hiy - loy)>>

\* C21 as stated: the region pushScissorRect pushes lies in the current render
\* target (0 <= x, 0 <= y, width >= 0, height >= 0, x + width <= target width,
\* y + height <= target height) and is the intersection of the unclamped
\* rectangle with the target: the same width and height and, when they are not 0,
\* the same origin.
C21_PushedRegionIsIntersection ==
    [][ev'.op = "pushScissorRect" =>
          LET r == scissorStack_'[Len(scissorStack_')]
              w == currentRenderTargetWidth_
              h == currentRenderTargetHeight_
              meet == IntersectTarget(ev'.rect, w, h)
          IN  /\ 0 <= r[1] /\ 0 <= r[2] /\ r[3] >= 0 /\ r[4] >= 0
              /\ r[1] + r[3] <= w
              /\ r[2] + r[4] <= h
              /\ r[3] = meet[3]
              /\ r[4] = meet[4]
              /\ (meet[3] > 0 /\ meet[4] > 0) => (r[1] = meet[1] /\ r[2] = meet[2])]_vars

\* the element of row i, column j (from 0) of a column-major 4x4 matrix
At(matrix, i, j) == matrix[4 * j + i + 1]

\* the first three coordinates of matrix * (p, 1)
Apply(matrix, p) ==
    [i \in 1..3 |-> At(matrix, i - 1, 0) * p[1] + At(matrix, i - 1, 1) * p[2]
                      + At(matrix, i - 1, 2) * p[3] + At(matrix, i - 1, 3)]

\* C22: the translation column of the matrix getViewMatrix writes is the negated
\* camera position rotated by the rotation block the matrix stores, so the view
\* matrix maps the camera's own position to the origin.
C22_ViewMapsCameraToOrigin ==
    camCall.op = "getViewMatrix" =>
        /\ \A i \in 1..3 :
              At(camCall.matrix, i - 1, 3) =
                  -(At(camCall.matrix, i - 1, 0) * cameraPosition_[1]
                    + At(camCall.matrix, i - 1, 1) * cameraPosition_[2]
                    + At(camCall.matrix, i - 1, 2) * cameraPosition_[3])
        /\ Apply(camCall.matrix, cameraPosition_) = <<0, 0, 0>>

\* C23: whenever renderFrame3DToTexture sets up the off-screen pass of a
\* Frame3D, the viewport and clip bounds it sets and the orthographic projection
\* it hands to the children have the resolution of the texture rendered into,
\* also when Frame3D::setSize was called after the texture was created.
C23_PassMatchesTextureResolution ==
    [][(ev'.op = "frame3d" /\ steps'[Len(steps')].ok) =>
          LET res == glTexImage'[ev'.texture]
          IN  /\ glScissorBox' = <<0, 0, res[1], res[2]>>
              /\ currentRenderTargetWidth_' = res[1]
              /\ currentRenderTargetHeight_' = res[2]
              /\ \A i \in 1..Len(agenda') :
                    (agenda'[i].t = "visit" /\ i <= Len(f3dChildren_[ev'.n]))
                       => (agenda'[i].m.ow = res[1] /\ agenda'[i].m.oh = res[2])]_vars

\* n reaches target by following parent_ at most k times
RECURSIVE ReachesUp(_, _, _)
ReachesUp(n, target, k) ==
    /\ k > 0
    /\ parent_[n] # Null
    /\ (parent_[n] = target \/ ReachesUp(parent_[n], target, k - 1))

\* C24: after any returned addChild or removeChild the parent relation is
\* acyclic: no node is its own ancestor (not by A.addChild(A), not by
\* B.addChild(A) with B a descendant of A), and no node is among the children
\* of one of its descendants.
C24_ParentAcyclic ==
    pc = "idle" =>
        \A n \in Nodes :
            /\ ~ReachesUp(n, n, NumNodes)
            /\ \A c \in Nodes : InSeq(children_[n], c) => c # n /\ ~ReachesUp(n, c, NumNodes)

\* C25: the parent_ of a live node is null or a live node, in particular it is
\* null after the parent was destroyed, and no addChild call reads through the
\* parent_ of a child whose parent was destroyed.
C25_NoDanglingParent ==
    [][/\ \A n \in Nodes :
             (alive'[n] /\ parent_'[n] # Null) => alive'[parent_'[n]]
       /\ (pc = "idle" /\ last'.op = "addChild" /\ last'.pre = "other")
             => alive[last'.preParent]]_vars

\* the region r lies inside the region s (an empty region lies inside any)
Inside(r, s) ==
    \/ r[3] <= 0
    \/ r[4] <= 0
    \/ /\ s[1] <= r[1] /\ r[1] + r[3] <= s[1] + s[3]
       /\ s[2] <= r[2] /\ r[2] + r[4] <= s[2] + s[4]

\* C26: while clip regions are pushed, the active scissor region lies inside
\* the region of every enclosing clipping Frame2D, i.e. inside every region on
\* the clip stack.
C26_ActiveRegionInsideEnclosing ==
    \A i \in 1..Len(scissorStack_) : Inside(glScissorBox, scissorStack_[i])

\* C27: the texture renderFrame3D draws as the quad of a Frame3D is the render
\* target this renderer rendered the frame into in the same call: the entry of
\* its renderTargetCache_ for the frame, a texture alive in its context; also
\* with several renderer instances and after shutdown and re-initialize, so a
\* handle released at shutdown is never drawn.
C27_QuadDrawsOwnRenderTarget ==
    [][(ev'.op = "quad" /\ ev'.ret) =>
          /\ ev'.n \in DOMAIN renderTargetCache_'
          /\ ev'.texture = renderTargetCache_'[ev'.n]
          /\ ev'.texture \in glTextures']_vars

\* the handles a step used, when it records them
Touched(e) == IF "touched" \in DOMAIN e THEN e.touched ELSE {}

\* C28: on a renderer that is not initialized, endFrame, pollEvents,
\* renderScene and renderObject, and every step of the traversals they start,
\* are safe no-ops: the process goes on, no window surface and no GPU handle is
\* used, and the state of the renderer, of the context and of the frames'
\* render-target handles is left as it was.
C28_UninitializedCallsAreNoOps ==
    [][(/\ ~initialized_
        /\ \/ ev'.op \in {"endFrame", "pollEvents", "renderScene", "renderObject"}
           \/ agenda # <<>>)
       => /\ pc' = pc
          /\ Touched(ev') = {}
          /\ UNCHANGED <<rendererVars, glVars, glTexImage, renderTargetTexture_,
                         shouldClose_>>]_vars

\* C29: on an initialized renderer shouldClose() returns whether a close request
\* (the Escape key or a close click seen by pollEvents) was recorded since the
\* last successful initialize: false until the first one, true from then until
\* shutdown, and a request recorded before a shutdown does not carry over to
\* the next initialize.
C29_ShouldCloseSinceInitialize ==
    [][(ev'.op = "shouldClose" /\ initialized_) => (ev'.ret = closeRequested)]_vars

\* the number of clipping-enabled Frame2Ds among the node that step q of the log
\* visits and its ancestors on the path of the traversal
ClippingOnPath(log, q) ==
    Cardinality({i \in 1..q :
                    /\ log[i].op = "frame2d"
                    /\ log[i].ok
                    /\ q <= i + SpanSeq(children_[log[i].n])})

\* C30: when renderObject2D processes a visible node, the clip stack holds as
\* many regions as there are clipping-enabled Frame2Ds among the node and its
\* ancestors; and whenever no traversal is in progress, so after every
\* renderScene, the clip stack is empty and, once a beginFrame has succeeded,
\* the current render-target dimensions are those beginFrame set, whether the
\* off-screen passes completed or returned early.
C30_ClipStackBalanced ==
    [][/\ ev'.op \in {"push", "frame2d", "drawRect", "text"}
             => Len(scissorStack_') = ClippingOnPath(steps', Len(steps'))
       /\ agenda' = <<>>
             => /\ scissorStack_' = <<>>
                /\ createdSinceBegin' # "none"
                      => /\ currentRenderTargetWidth_' = WindowSize[1]
                         /\ currentRenderTargetHeight_' = WindowSize[2]]_vars

\* a renderScene made after a beginFrame has returned: a clipping Frame2D nested
\* in another was traversed, one off-screen pass completed and one returned
\* early, the stack is empty and the dimensions are the window's
C30_Witness ==
    /\ agenda = <<>>
    /\ createdSinceBegin # "none"
    /\ scissorStack_ = <<>>
    /\ <<currentRenderTargetWidth_, currentRenderTargetHeight_>> = WindowSize
    /\ \E i \in 1..Len(steps) : steps[i].op = "frame3d" /\ steps[i].ok
    /\ \E i \in 1..Len(steps) : steps[i].op = "frame3d" /\ ~steps[i].ok
    /\ \E i \in 2..Len(steps) :
          /\ steps[i].op = "frame2d" /\ steps[i].ok
          /\ steps[i - 1].op = "frame2d" /\ steps[i - 1].ok
          /\ parent_[steps[i].n] = steps[i - 1].n
    /\ steps[Len(steps)].op = "quad"

====
